---- MODULE Spec2Model ----
(***************************************************************************)
(* consul-resolver: the selection algorithms, the Redis-backed metrics     *)
(* store and the selectOptimalService orchestrator, as state machines.     *)
(*                                                                         *)
(* The specifications share the variables below:                          *)
(*   SpecAlgorithms  the pure selection functions of src/algorithms,       *)
(*                   applied to inputs drawn in Init;                      *)
(*   SpecMetrics     the metrics operations called one after another;      *)
(*   SpecTelemetry   selections recorded and read back as time passes;     *)
(*   SpecRace        the same read-modify-write operations split at their  *)
(*                   awaits, two calls interleaving;                       *)
(*   Spec            ConsulResolver.selectOptimalService;                  *)
(*   SpecSeeded      the metrics reads on stores that already hold data;   *)
(*   SpecDisabled    the metrics operations with the cache disabled;       *)
(*   SpecSelection   connections and selections while the clock runs;      *)
(*   SpecResolver    selectOptimalService of src/resolver.ts;              *)
(*   SpecFirst       the metrics methods of the first class of             *)
(*                   src/unnamed/part_004;                                 *)
(*   SpecRecorded    selectOptimalService as the clock runs;               *)
(*   SpecExpiry      the metrics records and their time-to-live;           *)
(*   SpecResolverChurn  src/resolver.ts over a registry that changes;      *)
(*   SpecConcurrent  two selectOptimalService calls split at their awaits; *)
(*   SpecTwoNames    one resolver asked for two service names;             *)
(*   SpecWeighted    the weighted selectors of src/algorithms and          *)
(*                   DNSManager.selectFromSrvRecords;                      *)
(*   SpecSrvOnly     selectOptimalService on the SRV-only path over        *)
(*                   stores that hold connection counts;                   *)
(*   SpecRanking     rankServices of src/scoring on one list;              *)
(*   SpecRankedCalls selectOptimalService by ranking over stores that      *)
(*                   hold unreadable records;                              *)
(*   SpecCaches      getHealthChecks and DNSManager.resolveDNS with        *)
(*                   their caches;                                         *)
(*   SpecResolverRanking  rankServices of src/resolver.ts on one list.     *)
(* A variable a specification does not use keeps its initial value.        *)
(***************************************************************************)
EXTENDS Integers, Sequences, FiniteSets, TLC

VARIABLES
    services,      \* SpecAlgorithms: the ServiceHealth[] handed to the selectors
    rrStart,       \* SpecAlgorithms: the cursor of the first roundRobinSelection call
    rrIndex,       \* SpecAlgorithms: the cursor fed to the next call (the previous nextIndex)
    rrTrace,       \* SpecAlgorithms: the results of the successive roundRobinSelection calls
    lcIn,          \* SpecAlgorithms: the metrics map and default of the last leastConnectionSelection call
    lcOut,         \* SpecAlgorithms: what that call returned or threw
    redis,         \* the Redis store: key -> stored string, or Nil
    cacheEnabled,  \* config.cacheEnabled
    now,           \* Date.now(), in ticks of TickMs
    last,          \* SpecMetrics: the call that completed last (operation, id, outcome, return value)
    prev,          \* SpecMetrics: the call that completed before it
    pc,            \* SpecRace, SpecConcurrent: where each in-flight call stands
    loc,           \* SpecRace, SpecConcurrent: what each in-flight call holds in its locals
    done,          \* SpecRace, SpecConcurrent: how many calls completed, and the first two of them in order of completion
    consul,        \* Spec: what consul.health.service answers for the service name
    srv,           \* Spec: the SRV records the DNS query answers for the service name
    currentIndex,  \* Spec: ConsulResolver.currentIndex
    call,          \* Spec: the last selectOptimalService call: inputs, failure met, outcome
    expiry         \* SpecExpiry: key -> the tick at which the key expires, 0 when it holds nothing

algVars == <<services, rrStart, rrIndex, rrTrace, lcIn, lcOut>>
storeVars == <<redis, cacheEnabled, now>>
seqVars == <<last, prev>>
raceVars == <<pc, loc, done>>
resVars == <<consul, srv, currentIndex, call>>
ttlVars == <<expiry>>
vars == <<algVars, storeVars, seqVars, raceVars, resVars, ttlVars>>

----------------------------------------------------------------------------
(* Bounds of the model *)

MaxInst == 3      \* longest ServiceHealth[] handed to a selector
MaxCursor == 4    \* largest starting cursor
MaxConn == 2      \* largest activeConnections in a metrics map handed to a selector
MaxCount == 2     \* incrementConnections is not called on a record that counts this many
MaxTime == 4      \* last tick of the clock
DrawSteps == 3    \* Math.random() is one of 0, 1/DrawSteps, ..., (DrawSteps-1)/DrawSteps
MaxCallTime == 2  \* last tick at which selectOptimalService is called when the clock runs
MaxDays == 2      \* the clock of SpecExpiry stops after this many days

----------------------------------------------------------------------------
(* Data: src/src/types/index.ts *)

\* JavaScript's NaN, as a value of its own outside the naturals.
NaN == 0 - 1

Min(a, b) == IF a < b THEN a ELSE b
Max(a, b) == IF a > b THEN a ELSE b

\* JSON has no NaN: JSON.stringify writes null for it.
JsonNull == 0 - 2

\* `x || d` on a number: 0, NaN and null are falsy.
OrElse(x, d) == IF x = 0 \/ x = NaN \/ x = JsonNull THEN d ELSE x

DEFAULT_METRICS ==
    [responseTime |-> 100, errorRate |-> 0, cpuUsage |-> 50, memoryUsage |-> 50,
     activeConnections |-> 0]

ServiceIds == <<"s1", "s2", "s3", "s4", "s5">>
SrvTargets == <<"n1", "n2", "n3", "n4", "n5">>

\* The addresses at which selectOptimalService finds instances and SRV records.
AddrIndices == {1, 2}
Addresses == <<"10.0.0.1", "10.0.0.2", "10.0.0.3", "10.0.0.4", "10.0.0.5">>

Check(status) == [Status |-> status]

\* The check lists an instance is given: none, passing, failing, mixed.
CheckLists ==
    { <<>>, <<Check("passing")>>, <<Check("critical")>>,
      <<Check("passing"), Check("critical")>> }

\* The i-th registered instance (createMockServiceWithChecks in tests/test-utils.ts).
ServiceHealth(i, checks) ==
    [ID |-> ServiceIds[i], Address |-> Addresses[i], Port |-> 8080, Checks |-> checks]

\* Every ServiceHealth[] of n instances, ids in registration order.
ServiceLists(n) ==
    { [i \in 1..n |-> ServiceHealth(i, c[i])] : c \in [1..n -> CheckLists] }

IdsOf(list) == { list[i].ID : i \in 1..Len(list) }

----------------------------------------------------------------------------
(* src/src/algorithms/index.ts *)

\* service.Checks.every((check) => check.Status === "passing")
AllPassing(service) ==
    \A i \in 1..Len(service.Checks) : service.Checks[i].Status = "passing"

HealthyServices(list) == SelectSeq(list, AllPassing)

Threw(message) == [threw |-> message]

roundRobinSelection_Unfiltered(list, index) ==
    IF Len(list) = 0
    THEN Threw("No healthy services available")
    ELSE [threw |-> "", id |-> list[(index % Len(list)) + 1].ID,
          service |-> list[(index % Len(list)) + 1],
          nextIndex |-> (index + 1) % Len(list)]

roundRobinSelection_NoAdvance(list, index) ==
    LET healthyServices == HealthyServices(list) IN
    IF Len(healthyServices) = 0
    THEN Threw("No healthy services available")
    ELSE [threw |-> "", id |-> healthyServices[(index % Len(healthyServices)) + 1].ID,
          service |-> healthyServices[(index % Len(healthyServices)) + 1],
          nextIndex |-> index % Len(healthyServices)]

roundRobinSelection(list, index) ==
    LET healthyServices == HealthyServices(list) IN
    IF Len(healthyServices) = 0
    THEN Threw("No healthy services available")
    ELSE [threw |-> "", id |-> healthyServices[(index % Len(healthyServices)) + 1].ID,
          service |-> healthyServices[(index % Len(healthyServices)) + 1],
          nextIndex |-> (index + 1) % Len(healthyServices)]

\* metrics.get(id) || defaultMetrics, then `.activeConnections || 0`
ConnectionsOf(service, metrics, defaultMetrics) ==
    LET serviceMetrics == IF service.ID \in DOMAIN metrics
                          THEN metrics[service.ID] ELSE defaultMetrics
    IN OrElse(serviceMetrics.activeConnections, 0)

\* healthyServices.reduce((min, current) =>
\*     current.connections < min.connections ? current : min), left to right
RECURSIVE ReduceMin(_, _, _, _, _)
ReduceMin(list, metrics, defaultMetrics, i, min) ==
    IF i > Len(list) THEN min
    ELSE ReduceMin(list, metrics, defaultMetrics, i + 1,
            IF ConnectionsOf(list[i], metrics, defaultMetrics)
                   < ConnectionsOf(list[min], metrics, defaultMetrics)
            THEN i ELSE min)

RECURSIVE ReduceMin_LastWins(_, _, _, _, _)
ReduceMin_LastWins(list, metrics, defaultMetrics, i, min) ==
    IF i > Len(list) THEN min
    ELSE ReduceMin_LastWins(list, metrics, defaultMetrics, i + 1,
            IF ConnectionsOf(list[i], metrics, defaultMetrics)
                   <= ConnectionsOf(list[min], metrics, defaultMetrics)
            THEN i ELSE min)

leastConnectionSelection_LastWins(list, metrics, defaultMetrics) ==
    LET healthyServices == HealthyServices(list) IN
    IF Len(healthyServices) = 0
    THEN Threw("No healthy services available")
    ELSE LET k == ReduceMin_LastWins(healthyServices, metrics, defaultMetrics, 2, 1) IN
         [threw |-> "", id |-> healthyServices[k].ID, service |-> healthyServices[k]]

leastConnectionSelection(list, metrics, defaultMetrics) ==
    LET healthyServices == HealthyServices(list) IN
    IF Len(healthyServices) = 0
    THEN Threw("No healthy services available")
    ELSE LET k == ReduceMin(healthyServices, metrics, defaultMetrics, 2, 1) IN
         [threw |-> "", id |-> healthyServices[k].ID, service |-> healthyServices[k]]

----------------------------------------------------------------------------
(* The Redis store and the strings kept in it *)

cachePrefix == "consul"

\* `${this.cachePrefix}:connections:${serviceId}`
getConnectionKey(serviceId) ==
    [prefix |-> cachePrefix, space |-> "connections", name |-> serviceId]

\* pipeline.get(service.Service.ID): the bare service id, outside the prefix
BareKey(serviceId) == [prefix |-> "", space |-> "", name |-> serviceId]

\* The ids the metrics operations are called with; "s3" is never written.
MetricIds == {"s1", "s2"}

\* `${this.cachePrefix}:health:${service}` and `${this.cachePrefix}:dns:${service}`
getHealthCacheKey(service) == [prefix |-> cachePrefix, space |-> "health", name |-> service]
getDNSCacheKey(service) == [prefix |-> cachePrefix, space |-> "dns", name |-> service]

\* The service names selectOptimalService is called with.
ServiceNames == {"web"}

\* The ids selectOptimalService records a selection under: Service.ID on the
\* health path, the SRV target name on the SRV-only path.
SelectionIds ==
    { ServiceIds[i] : i \in AddrIndices } \cup { SrvTargets[i] : i \in AddrIndices }

Keys ==
    { getConnectionKey(id) : id \in MetricIds \cup {"s3"} \cup SelectionIds }
        \cup { BareKey(id) : id \in MetricIds \cup {"s3"} \cup SelectionIds }
        \cup { getHealthCacheKey(service) : service \in ServiceNames }
        \cup { getDNSCacheKey(service) : service \in ServiceNames }

\* No call made yet, and the reply of GET for a key that is not set.
NotCalled == [called |-> FALSE]
Nil == [kind |-> "nil"]

\* JSON.stringify(metrics): a field that is undefined is left out (a metrics
\* record without lastSelectedTime has no such field), NaN becomes null.
JSONstringify(metrics) ==
    [kind |-> "json",
     value |-> [f \in DOMAIN metrics |-> IF metrics[f] = NaN THEN JsonNull ELSE metrics[f]]]

\* JSON.parse(text) throws a SyntaxError on a text that is not JSON.
JSONparses(text) == text.kind = "json"
JSONparse(text) == text.value

\* parseInt(text): the leading integer of the text, NaN when there is none (a
\* JSON object starts with "{").
parseInt(text) == IF text.kind = "integer" THEN text.value ELSE NaN

\* A reply is truthy unless it is null or the empty string.
Truthy(reply) == reply # Nil

EmptyStore == [k \in Keys |-> Nil]

\* SET key value EX ttl
RedisSet(store, key, value) == [store EXCEPT ![key] = value]

\* KEYS `${cachePrefix}:*`
PrefixKeys(store) == { k \in Keys : k.prefix = cachePrefix /\ store[k] # Nil }

\* DEL keys
RedisDel(store, keys) == [k \in Keys |-> IF k \in keys THEN Nil ELSE store[k]]

----------------------------------------------------------------------------
(* MetricsManager (src/unnamed/part_005) and the same methods of            *)
(* ConsulResolver (src/unnamed/part_004): the metrics each write computes    *)

\* incrementConnections: the record written after reading `existingMetrics`
IncrementedMetrics_ByTwo(existingMetrics, metrics) ==
    IF Truthy(existingMetrics)
    THEN LET m == JSONparse(existingMetrics) IN
         [m EXCEPT !.activeConnections = OrElse(m.activeConnections, 0) + 2]
    ELSE [metrics EXCEPT !.activeConnections = 1]

IncrementedMetrics(existingMetrics, metrics) ==
    IF Truthy(existingMetrics)
    THEN LET m == JSONparse(existingMetrics) IN
         [m EXCEPT !.activeConnections = OrElse(m.activeConnections, 0) + 1]
    ELSE [metrics EXCEPT !.activeConnections = 1]

\* decrementConnections: Math.max(0, (metrics.activeConnections || 1) - 1)
DecrementedMetrics_Unclamped(existingMetrics, metrics) ==
    IF Truthy(existingMetrics)
    THEN LET m == JSONparse(existingMetrics) IN
         [m EXCEPT !.activeConnections = m.activeConnections - 1]
    ELSE [metrics EXCEPT !.activeConnections = 0]

DecrementedMetrics(existingMetrics, metrics) ==
    IF Truthy(existingMetrics)
    THEN LET m == JSONparse(existingMetrics) IN
         [m EXCEPT !.activeConnections = Max(0, OrElse(m.activeConnections, 1) - 1)]
    ELSE [metrics EXCEPT !.activeConnections = 0]

\* `metrics.lastSelectedTime = time`, on a record with or without the field
WithLastSelectedTime(m, time) ==
    [f \in DOMAIN m \cup {"lastSelectedTime"} |->
        IF f = "lastSelectedTime" THEN time ELSE m[f]]

\* A selection record that starts from the defaults whatever is stored.
SelectedMetrics_FromDefaults(existingMetrics, metrics, time) ==
    WithLastSelectedTime(metrics, time)

\* updateSelectionMetrics: the record written after reading `existingMetrics`
SelectedMetrics(existingMetrics, metrics, time) ==
    WithLastSelectedTime(
        IF Truthy(existingMetrics) THEN JSONparse(existingMetrics) ELSE metrics, time)

\* The record an operation writes.
Computed(op, existingMetrics, metrics, time) ==
    CASE op = "incrementConnections" -> IncrementedMetrics(existingMetrics, metrics)
      [] op = "decrementConnections" -> DecrementedMetrics(existingMetrics, metrics)
      [] op = "updateSelectionMetrics" -> SelectedMetrics(existingMetrics, metrics, time)

\* JavaScript's null, as getSelectionMetrics returns it.
null == [null |-> TRUE]

\* A read that answers a miss with the default metrics.
SelectionMetricsOf_Default(reply) ==
    IF Truthy(reply) THEN JSONparse(reply) ELSE DEFAULT_METRICS

\* getSelectionMetrics: `metrics ? JSON.parse(metrics) : null` on the reply
SelectionMetricsOf(reply) == IF Truthy(reply) THEN JSONparse(reply) ELSE null

----------------------------------------------------------------------------
(* getServicesMetrics: one pipeline of two GETs per candidate *)

\* A pipeline that queues its reads whatever the cache flag says.
PipelineCommands_Always(list, enabled) ==
    [j \in 1..(2 * Len(list)) |->
        IF j % 2 = 1 THEN BareKey(list[(j + 1) \div 2].ID)
                     ELSE getConnectionKey(list[j \div 2].ID)]

\* services.forEach: pipeline.get(ID); pipeline.get(getConnectionKey(ID)),
\* queued only when the cache is enabled.
PipelineCommands(list, enabled) ==
    IF enabled
    THEN [j \in 1..(2 * Len(list)) |->
             IF j % 2 = 1 THEN BareKey(list[(j + 1) \div 2].ID)
                          ELSE getConnectionKey(list[j \div 2].ID)]
    ELSE <<>>

\* pipeline.exec(): one [error, reply] pair per queued command, in order.
PipelineExec(store, commands) ==
    [j \in 1..Len(commands) |-> <<null, store[commands[j]]>>]

\* results[k]?.[1], k counted from 0: undefined past the end of the array.
ReplyAt(results, k) == IF k + 1 <= Len(results) THEN results[k + 1][2] ELSE Nil

\* MetricsManager.getServicesMetrics, lines 45-68: the entry of one candidate.
MetricsManager_entry_NoDefault(metricsResult, connectionsResult, metrics) ==
    IF Truthy(metricsResult) /\ ~JSONparses(metricsResult) THEN metrics
    ELSE LET m == IF Truthy(metricsResult) THEN JSONparse(metricsResult)
                  ELSE [activeConnections |-> 0]
         IN IF ~Truthy(connectionsResult) THEN m
            ELSE IF ~JSONparses(connectionsResult) THEN metrics
            ELSE [m EXCEPT !.activeConnections =
                      OrElse(JSONparse(connectionsResult).activeConnections, 0)]

MetricsManager_entry(metricsResult, connectionsResult, metrics) ==
    IF Truthy(metricsResult) /\ ~JSONparses(metricsResult) THEN metrics
    ELSE LET m == IF Truthy(metricsResult) THEN JSONparse(metricsResult) ELSE metrics IN
         IF ~Truthy(connectionsResult) THEN m
         ELSE IF ~JSONparses(connectionsResult) THEN metrics
         ELSE [m EXCEPT !.activeConnections =
                   OrElse(JSONparse(connectionsResult).activeConnections, 0)]

\* ConsulResolver.getServicesMetrics, lines 905-928: the entry of one candidate;
\* the connections reply goes through parseInt.
ConsulResolver_entry(metricsResult, connectionsResult, metrics) ==
    IF Truthy(metricsResult) /\ ~JSONparses(metricsResult) THEN metrics
    ELSE LET m == IF Truthy(metricsResult) THEN JSONparse(metricsResult) ELSE metrics IN
         [m EXCEPT !.activeConnections =
             IF Truthy(connectionsResult) THEN parseInt(connectionsResult) ELSE 0]

\* The index services.forEach reaches last for an id: its Map.set stands.
LastIndexOf(list, id) ==
    CHOOSE i \in 1..Len(list) :
        /\ list[i].ID = id
        /\ \A j \in (i + 1)..Len(list) : list[j].ID # id

\* What exec() gave: replies, a falsy result, or a rejection.
ExecOutcomes == {"replies", "null", "rejects"}

\* A batch in which one unparseable item defaults every candidate.
MetricsManager_getServicesMetrics_AllOrNothing(list, store, enabled, outcome, metrics) ==
    LET results == PipelineExec(store, PipelineCommands(list, enabled))
        Parses(k) == ~Truthy(ReplyAt(results, k)) \/ JSONparses(ReplyAt(results, k))
    IN [id \in IdsOf(list) |->
           IF outcome # "replies" \/ \E k \in 0..(Len(results) - 1) : ~Parses(k)
           THEN metrics
           ELSE LET index == LastIndexOf(list, id) - 1 IN
                MetricsManager_entry(ReplyAt(results, index * 2),
                                     ReplyAt(results, index * 2 + 1), metrics)]

MetricsManager_getServicesMetrics(list, store, enabled, outcome, metrics) ==
    LET results == PipelineExec(store, PipelineCommands(list, enabled)) IN
    [id \in IdsOf(list) |->
        IF outcome # "replies" THEN metrics
        ELSE LET index == LastIndexOf(list, id) - 1 IN
             MetricsManager_entry(ReplyAt(results, index * 2),
                                  ReplyAt(results, index * 2 + 1), metrics)]

\* A batch read that sets no entry for a candidate whose stored blob does not
\* parse.
ConsulResolver_getServicesMetrics_SkipUnparseable(list, store, enabled, outcome, metrics) ==
    LET results == PipelineExec(store, PipelineCommands(list, enabled))
        Parsed == { id \in IdsOf(list) :
                       \/ outcome # "replies"
                       \/ ~Truthy(ReplyAt(results, (LastIndexOf(list, id) - 1) * 2))
                       \/ JSONparses(ReplyAt(results, (LastIndexOf(list, id) - 1) * 2)) }
    IN [id \in Parsed |->
           IF outcome # "replies" THEN metrics
           ELSE LET index == LastIndexOf(list, id) - 1 IN
                ConsulResolver_entry(ReplyAt(results, index * 2),
                                     ReplyAt(results, index * 2 + 1), metrics)]

ConsulResolver_getServicesMetrics(list, store, enabled, outcome, metrics) ==
    LET results == PipelineExec(store, PipelineCommands(list, enabled)) IN
    [id \in IdsOf(list) |->
        IF outcome # "replies" THEN metrics
        ELSE LET index == LastIndexOf(list, id) - 1 IN
             ConsulResolver_entry(ReplyAt(results, index * 2),
                                  ReplyAt(results, index * 2 + 1), metrics)]

----------------------------------------------------------------------------
(* src/src/scoring/index.ts: calculateDistributionScore *)

\* One tick of `now` is 150 s; scores are in thousandths.
TickMs == 150 * 1000
ScoreOne == 10 * 100
FiveMinutes == (5 * 60 * 1000) \div TickMs

HasLastSelectedTime(m) == "lastSelectedTime" \in DOMAIN m

\* if (!lastSelectedTime) return 1;
\* return Math.min((Date.now() - lastSelectedTime) / (5 * 60 * 1000), 1)
calculateDistributionScore(m, time) ==
    IF ~HasLastSelectedTime(m) THEN ScoreOne
    ELSE IF m.lastSelectedTime = 0 THEN ScoreOne
    ELSE Min(((time - m.lastSelectedTime) * ScoreOne) \div FiveMinutes, ScoreOne)

----------------------------------------------------------------------------
(* Initial values of the variables a specification does not use *)

AlgIdle ==
    /\ services = <<>>
    /\ rrStart = 0
    /\ rrIndex = 0
    /\ rrTrace = <<>>
    /\ lcIn = NotCalled
    /\ lcOut = NotCalled

SeqIdle ==
    /\ last = NotCalled
    /\ prev = NotCalled

NoneDone == [n |-> 0, calls |-> <<>>]

RaceIdle ==
    /\ pc = <<>>
    /\ loc = <<>>
    /\ done = NoneDone

ResIdle ==
    /\ consul = <<>>
    /\ srv = <<>>
    /\ currentIndex = 0
    /\ call = NotCalled

TtlIdle == expiry = [k \in Keys |-> 0]

----------------------------------------------------------------------------
(* SpecAlgorithms: roundRobinSelection called again and again, each call fed *)
(* the nextIndex of the one before, and leastConnectionSelection called once *)

\* A metrics map over some of the ids, as the selectors receive it.
MetricsMaps(ids) ==
    UNION { [S -> { [DEFAULT_METRICS EXCEPT !.activeConnections = n] : n \in 0..MaxConn }]
            : S \in SUBSET ids }

AlgInit ==
    /\ services \in UNION { ServiceLists(n) : n \in 0..MaxInst }
    /\ rrStart \in 0..MaxCursor
    /\ rrIndex = rrStart
    /\ rrTrace = <<>>
    /\ lcIn = NotCalled
    /\ lcOut = NotCalled
    /\ redis = EmptyStore /\ cacheEnabled = TRUE /\ now = 1
    /\ SeqIdle /\ RaceIdle /\ ResIdle /\ TtlIdle

RoundRobinCall ==
    /\ lcOut = NotCalled
    /\ Len(rrTrace) < MaxInst + 2
    /\ \A k \in 1..Len(rrTrace) : rrTrace[k].threw = ""
    /\ LET r == roundRobinSelection(services, rrIndex) IN
       /\ rrTrace' = Append(rrTrace, r)
       /\ rrIndex' = IF r.threw = "" THEN r.nextIndex ELSE rrIndex
    /\ UNCHANGED <<services, rrStart, lcIn, lcOut>>
    /\ UNCHANGED <<storeVars, seqVars, raceVars, resVars, ttlVars>>

LeastConnectionCall ==
    /\ lcOut = NotCalled
    /\ rrTrace = <<>>
    /\ rrStart = 0
    /\ \E metrics \in MetricsMaps(IdsOf(services)), defaultConnections \in {0, 1} :
          LET defaultMetrics ==
                  [DEFAULT_METRICS EXCEPT !.activeConnections = defaultConnections]
          IN /\ lcIn' = [called |-> TRUE, metrics |-> metrics,
                         defaultMetrics |-> defaultMetrics]
             /\ lcOut' = [called |-> TRUE,
                          result |-> leastConnectionSelection(services, metrics, defaultMetrics)]
    /\ UNCHANGED <<services, rrStart, rrIndex, rrTrace>>
    /\ UNCHANGED <<storeVars, seqVars, raceVars, resVars, ttlVars>>

AlgNext == RoundRobinCall \/ LeastConnectionCall

SpecAlgorithms == AlgInit /\ [][AlgNext]_vars

----------------------------------------------------------------------------
(* Claims about the selection algorithms *)

NHealthy == Len(HealthyServices(services))

\* C2: for N > 0 healthy instances and an unchanged list, N successive
\* roundRobinSelection calls starting at cursor 0, each fed the previous
\* nextIndex, return N different healthy instances (each exactly once), the
\* call after them returns the first again, and every nextIndex is in [0, N).
C2_RoundRobinRotation ==
    (rrStart = 0 /\ NHealthy > 0) =>
        /\ \A k \in 1..Len(rrTrace) :
              /\ rrTrace[k].threw = ""
              /\ rrTrace[k].nextIndex \in 0..(NHealthy - 1)
        /\ \A i, j \in 1..Min(Len(rrTrace), NHealthy) :
              i # j => rrTrace[i].service # rrTrace[j].service
        /\ Len(rrTrace) >= NHealthy =>
              { rrTrace[k].service : k \in 1..NHealthy }
                  = { HealthyServices(services)[k] : k \in 1..NHealthy }
        /\ Len(rrTrace) > NHealthy => rrTrace[NHealthy + 1].service = rrTrace[1].service

C2_Witness ==
    /\ rrStart = 0
    /\ NHealthy >= 2
    /\ NHealthy < Len(services)
    /\ Len(rrTrace) > NHealthy

\* C3: roundRobinSelection and leastConnectionSelection return only an instance
\* of the input whose every check is passing, and they raise 'No healthy
\* services available' exactly when the input has no such instance.
C3_Outcome(r) ==
    IF NHealthy = 0
    THEN r = Threw("No healthy services available")
    ELSE /\ r.threw = ""
         /\ AllPassing(r.service)
         /\ \E i \in 1..Len(services) : services[i] = r.service
         /\ r.id = r.service.ID

C3_OnlyHealthySelected ==
    /\ \A k \in 1..Len(rrTrace) : C3_Outcome(rrTrace[k])
    /\ lcOut.called => C3_Outcome(lcOut.result)

C3_Witness ==
    /\ Len(services) >= 2
    /\ NHealthy = 0
    /\ \E i \in 1..Len(services) : \E c \in 1..Len(services[i].Checks) :
          services[i].Checks[c].Status = "passing"
    /\ lcOut.called
    /\ lcOut.result.threw # ""

C3_WitnessSelected ==
    /\ NHealthy >= 1
    /\ ~AllPassing(services[1])
    /\ Len(rrTrace) >= 1
    /\ rrTrace[1].threw = ""

\* C4: leastConnectionSelection returns the healthy instance with the fewest
\* activeConnections, an instance absent from the metrics map counting with
\* the default metrics' activeConnections; among several with the minimum it
\* returns the earliest in input order.
PositionOf(service) == CHOOSE i \in 1..Len(services) : services[i] = service

C4_LeastConnectionMinimum ==
    (lcOut.called /\ NHealthy > 0) =>
        LET sel == lcOut.result.service
            conn(s) == IF s.ID \in DOMAIN lcIn.metrics
                       THEN lcIn.metrics[s.ID].activeConnections
                       ELSE lcIn.defaultMetrics.activeConnections
        IN /\ lcOut.result.threw = ""
           /\ AllPassing(sel)
           /\ \A i \in 1..Len(services) :
                 AllPassing(services[i]) =>
                    /\ conn(sel) <= conn(services[i])
                    /\ i < PositionOf(sel) => conn(sel) < conn(services[i])

C4_Witness ==
    /\ lcOut.called
    /\ NHealthy >= 2
    /\ lcOut.result.threw = ""
    /\ lcOut.result.service.ID \notin DOMAIN lcIn.metrics
    /\ lcIn.defaultMetrics.activeConnections = 1
    /\ \E i \in 1..Len(services) :
          /\ i > PositionOf(lcOut.result.service)
          /\ AllPassing(services[i])
          /\ services[i].ID \in DOMAIN lcIn.metrics
          /\ lcIn.metrics[services[i].ID].activeConnections = 1
    /\ ~AllPassing(services[1])

----------------------------------------------------------------------------
(* SpecMetrics: the metrics operations, one call completing before the next  *)
(* starts. Each action is one whole call; `last` and `prev` keep the two     *)
(* calls that completed last, with the store as each found it.               *)

WriteOps == {"incrementConnections", "decrementConnections", "updateSelectionMetrics"}

\* The candidate lists getServicesMetrics is called with.
Candidate(i) == ServiceHealth(i, <<Check("passing")>>)
CandidateLists ==
    { <<Candidate(1)>>, <<Candidate(2), Candidate(1)>>,
      <<Candidate(1), Candidate(2), Candidate(3)>> }

Completed(op, id, arg, failure, threw, ret) ==
    [called |-> TRUE, op |-> op, id |-> id, arg |-> arg, failure |-> failure,
     threw |-> threw, before |-> redis, ret |-> ret]

\* What `prev` keeps of a call: of a write its operation, id, failure and the
\* string it found under its key; of any other call only that it was made.
Summary(c) ==
    IF ~c.called THEN c
    ELSE IF c.op \in WriteOps
    THEN [called |-> TRUE, op |-> c.op, id |-> c.id, failure |-> c.failure,
          before |-> c.before[getConnectionKey(c.id)]]
    ELSE [called |-> TRUE, op |-> "other"]

Record(c) ==
    /\ last' = c
    /\ prev' = Summary(last)

\* activeConnections of the record stored for id, 0 when there is none.
StoredConnections(store, id) ==
    IF Truthy(store[getConnectionKey(id)]) /\ JSONparses(store[getConnectionKey(id)])
    THEN JSONparse(store[getConnectionKey(id)]).activeConnections
    ELSE 0

MetricsInit ==
    /\ redis = EmptyStore
    /\ cacheEnabled \in BOOLEAN
    /\ now = 1
    /\ SeqIdle /\ AlgIdle /\ TtlIdle /\ RaceIdle /\ ResIdle

\* incrementConnections, decrementConnections, updateSelectionMetrics:
\* GET, compute, SET when the cache is enabled; any failure is caught and logged.
WriteCall(op, id) ==
    \E failure \in {"none", "get", "set"} :
        LET key == getConnectionKey(id)
            existingMetrics == redis[key]
            parses == ~Truthy(existingMetrics) \/ JSONparses(existingMetrics)
        IN /\ op = "incrementConnections" => StoredConnections(redis, id) < MaxCount
           /\ failure = "set" => (cacheEnabled /\ parses)
           /\ redis' = IF failure = "none" /\ parses /\ cacheEnabled
                       THEN RedisSet(redis, key,
                                JSONstringify(Computed(op, existingMetrics, DEFAULT_METRICS, now)))
                       ELSE redis
           /\ Record(Completed(op, id, <<>>, failure, FALSE, null))
           /\ UNCHANGED <<cacheEnabled, now, algVars, ttlVars, raceVars, resVars>>

\* getSelectionMetrics: null when the cache is disabled, on a miss and on an error.
getSelectionMetrics(id) ==
    \E failure \in {"none", "get"} :
        LET reply == redis[getConnectionKey(id)]
            ret == IF ~cacheEnabled \/ failure = "get" THEN null
                   ELSE IF Truthy(reply) /\ ~JSONparses(reply) THEN null
                   ELSE SelectionMetricsOf(reply)
        IN /\ failure = "get" => cacheEnabled
           /\ Record(Completed("getSelectionMetrics", id, <<>>, failure, FALSE, ret))
           /\ UNCHANGED <<storeVars, algVars, ttlVars, raceVars, resVars>>

\* MetricsManager.getServicesMetrics (src/unnamed/part_005)
MetricsManagerGetServicesMetrics(list) ==
    \E outcome \in ExecOutcomes :
        /\ Record(Completed("MetricsManager.getServicesMetrics", "", list, outcome, FALSE,
               MetricsManager_getServicesMetrics(list, redis, cacheEnabled, outcome,
                                                 DEFAULT_METRICS)))
        /\ UNCHANGED <<storeVars, algVars, ttlVars, raceVars, resVars>>

\* ConsulResolver.getServicesMetrics (src/unnamed/part_004)
ConsulResolverGetServicesMetrics(list) ==
    \E outcome \in ExecOutcomes :
        /\ Record(Completed("ConsulResolver.getServicesMetrics", "", list, outcome, FALSE,
               ConsulResolver_getServicesMetrics(list, redis, cacheEnabled, outcome,
                                                 DEFAULT_METRICS)))
        /\ UNCHANGED <<storeVars, algVars, ttlVars, raceVars, resVars>>

\* refresh: KEYS prefix:*, then DEL of what it listed; a failure is rethrown.
refresh ==
    \E failure \in {"none", "keys", "del"} :
        LET keys == PrefixKeys(redis) IN
        /\ failure # "none" => cacheEnabled
        /\ failure = "del" => keys # {}
        /\ redis' = IF cacheEnabled /\ failure = "none" THEN RedisDel(redis, keys) ELSE redis
        /\ Record(Completed("refresh", "", <<>>, failure, failure # "none", null))
        /\ UNCHANGED <<cacheEnabled, now, algVars, ttlVars, raceVars, resVars>>

\* Date.now() moves on.
Tick ==
    /\ now < MaxTime
    /\ now' = now + 1
    /\ UNCHANGED <<redis, cacheEnabled, seqVars, algVars, ttlVars, raceVars, resVars>>

MetricsNext ==
    \/ \E op \in WriteOps, id \in MetricIds : WriteCall(op, id)
    \/ \E id \in MetricIds : getSelectionMetrics(id)
    \/ \E list \in CandidateLists : MetricsManagerGetServicesMetrics(list)
    \/ \E list \in CandidateLists : ConsulResolverGetServicesMetrics(list)
    \/ refresh

SpecMetrics == MetricsInit /\ [][MetricsNext]_vars

(* SpecTelemetry: selections recorded and read back while the clock runs *)
TelemetryNext ==
    \/ \E op \in {"incrementConnections", "updateSelectionMetrics"} : WriteCall(op, "s1")
    \/ \E list \in CandidateLists : MetricsManagerGetServicesMetrics(list)
    \/ \E list \in CandidateLists : ConsulResolverGetServicesMetrics(list)
    \/ Tick

SpecTelemetry == MetricsInit /\ [][TelemetryNext]_vars

----------------------------------------------------------------------------
(* SpecRace: the same operations split where they await Redis. A call is     *)
(* suspended between its GET and its SET (refresh: between KEYS and DEL),    *)
(* and another call may run in between. The cache is enabled.                *)

Procs == {"p1", "p2"}

RaceInit ==
    /\ redis = EmptyStore
    /\ cacheEnabled = TRUE
    /\ now = 1
    /\ pc = [p \in Procs |-> "idle"]
    /\ loc = [p \in Procs |-> NotCalled]
    /\ done = NoneDone
    /\ AlgIdle /\ TtlIdle /\ SeqIdle /\ ResIdle

\* The call of p returns; `done` keeps the first two calls that returned.
Finish(p, c) ==
    /\ pc' = [pc EXCEPT ![p] = "idle"]
    /\ loc' = [loc EXCEPT ![p] = NotCalled]
    /\ done' = IF done.n < 2
               THEN [n |-> done.n + 1, calls |-> Append(done.calls, c)]
               ELSE [n |-> 3, calls |-> <<>>]

\* `await this.redis?.get(connectionKey)`: the reply, or a rejection that the
\* catch block logs.
Get(p, op, id) ==
    /\ pc[p] = "idle"
    /\ op = "incrementConnections" => StoredConnections(redis, id) < MaxCount
    /\ \E ok \in BOOLEAN :
          IF ok
          THEN /\ pc' = [pc EXCEPT ![p] = "got"]
               /\ loc' = [loc EXCEPT ![p] =
                             [called |-> TRUE, op |-> op, id |-> id,
                              existingMetrics |-> redis[getConnectionKey(id)]]]
               /\ UNCHANGED done
          ELSE Finish(p, [op |-> op, id |-> id, failure |-> "get", existingMetrics |-> Nil])
    /\ UNCHANGED <<storeVars, algVars, ttlVars, seqVars, resVars>>

\* The metrics computed from the reply, then `await this.redis?.set(...)`.
Set(p) ==
    /\ pc[p] = "got"
    /\ LET c == loc[p]
           parses == ~Truthy(c.existingMetrics) \/ JSONparses(c.existingMetrics)
       IN \E ok \in BOOLEAN :
             /\ redis' = IF ok /\ parses /\ cacheEnabled
                         THEN RedisSet(redis, getConnectionKey(c.id),
                                  JSONstringify(Computed(c.op, c.existingMetrics,
                                                         DEFAULT_METRICS, now)))
                         ELSE redis
             /\ Finish(p, [op |-> c.op, id |-> c.id,
                           failure |-> IF ok /\ parses THEN "none" ELSE "set",
                           existingMetrics |-> c.existingMetrics])
    /\ UNCHANGED <<cacheEnabled, now, algVars, ttlVars, seqVars, resVars>>

\* refresh: `await this.redis?.keys(pattern)`
RefreshKeys(p) ==
    /\ pc[p] = "idle"
    /\ cacheEnabled
    /\ \E ok \in BOOLEAN :
          IF ok /\ PrefixKeys(redis) # {}
          THEN /\ pc' = [pc EXCEPT ![p] = "listed"]
               /\ loc' = [loc EXCEPT ![p] =
                             [called |-> TRUE, op |-> "refresh", keys |-> PrefixKeys(redis)]]
               /\ UNCHANGED done
          ELSE Finish(p, [op |-> "refresh", id |-> "",
                          failure |-> IF ok THEN "none" ELSE "keys",
                          existingMetrics |-> Nil])
    /\ UNCHANGED <<storeVars, algVars, ttlVars, seqVars, resVars>>

\* refresh: `await this.redis?.del(...keys)` of the keys listed before
RefreshDel(p) ==
    /\ pc[p] = "listed"
    /\ \E ok \in BOOLEAN :
          /\ redis' = IF ok THEN RedisDel(redis, loc[p].keys) ELSE redis
          /\ Finish(p, [op |-> "refresh", id |-> "",
                        failure |-> IF ok THEN "none" ELSE "del",
                        existingMetrics |-> Nil])
    /\ UNCHANGED <<cacheEnabled, now, algVars, ttlVars, seqVars, resVars>>

RaceNext ==
    \/ \E p \in Procs, op \in WriteOps, id \in MetricIds : Get(p, op, id)
    \/ \E p \in Procs : Set(p)
    \/ \E p \in Procs : RefreshKeys(p)
    \/ \E p \in Procs : RefreshDel(p)

SpecRace == RaceInit /\ [][RaceNext]_vars

----------------------------------------------------------------------------
(* Claims about the metrics store *)

GetServicesMetricsOps ==
    {"MetricsManager.getServicesMetrics", "ConsulResolver.getServicesMetrics"}

\* activeConnections of a stored string, 0 when nothing is stored.
ConnectionsIn(text) == IF Truthy(text) THEN JSONparse(text).activeConnections ELSE 0

\* C5: with the cache enabled and no other call in between, incrementConnections(id)
\* followed by decrementConnections(id) leaves the stored activeConnections of id
\* at the value it had before the increment (0 when id had no record); and
\* decrementConnections on a record counting 0, or on an id with no record,
\* leaves a record counting 0.
C5_IncrementThenDecrement ==
    (cacheEnabled /\ last.called /\ last.op = "decrementConnections" /\ last.failure = "none")
    => LET key == getConnectionKey(last.id) IN
       /\ Truthy(redis[key])
       /\ (prev.called /\ prev.op = "incrementConnections" /\ prev.id = last.id
              /\ prev.failure = "none")
             => ConnectionsIn(redis[key]) = ConnectionsIn(prev.before)
       /\ ConnectionsIn(last.before[key]) = 0 => ConnectionsIn(redis[key]) = 0

C5_Witness ==
    /\ cacheEnabled
    /\ last.called /\ last.op = "decrementConnections" /\ last.failure = "none"
    /\ prev.called
    /\ prev.op = "incrementConnections" /\ prev.id = last.id /\ prev.failure = "none"
    /\ ConnectionsIn(prev.before) = 1
    /\ ConnectionsIn(last.before[getConnectionKey(last.id)]) = 2
    /\ ConnectionsIn(redis[getConnectionKey(last.id)]) = 1

\* C6: in every reachable state, under every interleaving of incrementConnections,
\* decrementConnections, updateSelectionMetrics and refresh, the activeConnections
\* of every stored metrics record is an integer >= 0.
C6_ConnectionsNeverNegative ==
    \A k \in Keys :
        Truthy(redis[k]) =>
            /\ JSONparses(redis[k])
            /\ JSONparse(redis[k]).activeConnections \in Nat

C6_Witness ==
    /\ done.n = 2
    /\ done.calls[1].op = "decrementConnections" /\ done.calls[1].failure = "none"
    /\ done.calls[2].op = "decrementConnections" /\ done.calls[2].failure = "none"
    /\ done.calls[1].id = done.calls[2].id
    /\ Truthy(done.calls[2].existingMetrics)
    /\ ConnectionsIn(redis[getConnectionKey(done.calls[1].id)]) = 0

\* C7: the read-modify-write is not atomic. Of two calls on the same id that are
\* the first two to complete, on a store that was empty, the second one's write
\* rests on what it read: when it read before the first wrote, the stored record
\* is the one the second call alone produces and the first update is lost; only
\* when it read after the first wrote does the record reflect both.
C7_Alone(op, m) ==
    CASE op = "incrementConnections" -> m.activeConnections = 1 /\ ~HasLastSelectedTime(m)
      [] op = "updateSelectionMetrics" -> m.activeConnections = 0 /\ HasLastSelectedTime(m)

C7_Both(op1, op2, m) ==
    /\ m.activeConnections = (IF op1 = "incrementConnections" THEN 1 ELSE 0)
                               + (IF op2 = "incrementConnections" THEN 1 ELSE 0)
    /\ HasLastSelectedTime(m) <=> "updateSelectionMetrics" \in {op1, op2}

C7_TwoCalls ==
    /\ done.n = 2
    /\ \A k \in 1..2 :
          /\ done.calls[k].op \in {"incrementConnections", "updateSelectionMetrics"}
          /\ done.calls[k].failure = "none"
    /\ done.calls[1].id = done.calls[2].id

C7_LostUpdate ==
    C7_TwoCalls =>
        LET m == JSONparse(redis[getConnectionKey(done.calls[2].id)]) IN
        IF ~Truthy(done.calls[2].existingMetrics)
        THEN C7_Alone(done.calls[2].op, m)
        ELSE C7_Both(done.calls[1].op, done.calls[2].op, m)

C7_Witness ==
    /\ C7_TwoCalls
    /\ done.calls[1].op = "incrementConnections"
    /\ done.calls[2].op = "incrementConnections"
    /\ ConnectionsIn(redis[getConnectionKey(done.calls[2].id)]) = 1

C7_WitnessSelectionLost ==
    /\ C7_TwoCalls
    /\ done.calls[1].op = "updateSelectionMetrics"
    /\ done.calls[2].op = "incrementConnections"
    /\ ~HasLastSelectedTime(JSONparse(redis[getConnectionKey(done.calls[2].id)]))

\* C8: after a selection of X is recorded at time T (cache enabled, the record
\* still stored), the metrics getServicesMetrics returns for X carry
\* lastSelectedTime = T, so the distribution score of X is below 1 until five
\* minutes have passed since T.
C8_LastSelectionFedBack ==
    (cacheEnabled /\ last.called /\ last.op \in GetServicesMetricsOps
        /\ last.failure = "replies")
    => \A id \in IdsOf(last.arg) :
          LET stored == redis[getConnectionKey(id)] IN
          (Truthy(stored) /\ HasLastSelectedTime(JSONparse(stored))) =>
              /\ HasLastSelectedTime(last.ret[id])
              /\ last.ret[id].lastSelectedTime = JSONparse(stored).lastSelectedTime
              /\ now - JSONparse(stored).lastSelectedTime < FiveMinutes
                    => calculateDistributionScore(last.ret[id], now) < ScoreOne

\* C9: with the cache enabled, getServicesMetrics reports for each candidate the
\* activeConnections of the record stored for it (what getSelectionMetrics
\* reads), and 0 for a candidate with no record.
C9_ConnectionsFedBack ==
    (cacheEnabled /\ last.called /\ last.op \in GetServicesMetricsOps
        /\ last.failure = "replies")
    => \A id \in IdsOf(last.arg) :
          last.ret[id].activeConnections = StoredConnections(redis, id)

\* The same property of MetricsManager.getServicesMetrics alone, which parses
\* the connections record as JSON.
C9_MetricsManagerAlone ==
    (cacheEnabled /\ last.called /\ last.op = "MetricsManager.getServicesMetrics"
        /\ last.failure = "replies")
    => \A id \in IdsOf(last.arg) :
          last.ret[id].activeConnections = StoredConnections(redis, id)

\* C10: MetricsManager.getServicesMetrics called for N instances on a store
\* with no prior writes returns a map with exactly those N ids, each mapped to
\* the configured default metrics.
C10_DefaultsOnEmptyStore ==
    (last.called /\ last.op = "MetricsManager.getServicesMetrics"
        /\ last.before = EmptyStore)
    => /\ DOMAIN last.ret = IdsOf(last.arg)
       /\ \A id \in IdsOf(last.arg) : last.ret[id] = DEFAULT_METRICS

C10_Witness ==
    /\ cacheEnabled
    /\ last.called /\ last.op = "MetricsManager.getServicesMetrics"
    /\ last.before = EmptyStore
    /\ last.failure = "replies"
    /\ Len(last.arg) = 3
    /\ ~prev.called

----------------------------------------------------------------------------
(* ConsulResolver (src/unnamed/part_004): the SRV records and the selection  *)
(* among them                                                                *)

\* enum SelectionAlgorithm
RoundRobin == "round-robin"
LeastConnection == "least-connection"
WeightedRoundRobin == "weighted-round-robin"
SelectionAlgorithm == {RoundRobin, LeastConnection, WeightedRoundRobin}

\* The SRV record of the instance at the i-th address; the port DNS declares
\* differs from the port the registry reports.
SrvRecord(i, priority, weight) ==
    [name |-> SrvTargets[i], ip |-> Addresses[i], port |-> 9000 + i,
     priority |-> priority, weight |-> weight]

\* sortByPriority: [...records].sort((a, b) => (a.priority || 0) - (b.priority || 0));
\* Array.prototype.sort is stable.
sortByPriority(records) ==
    LET n == Len(records)
        key(i) == OrElse(records[i].priority, 0)
        rank(i) == Cardinality({ j \in 1..n :
                       key(j) < key(i) \/ (key(j) = key(i) /\ j < i) }) + 1
    IN [k \in 1..n |-> records[CHOOSE i \in 1..n : rank(i) = k]]

\* No narrowing to the top tier: every record stays a candidate.
HighestPriorityRecords_All(sortedByPriority) == sortedByPriority

\* sortedByPriority.filter(record => record.priority === sortedByPriority[0]?.priority)
HighestPriorityRecords(sortedByPriority) ==
    IF Len(sortedByPriority) = 0 THEN <<>>
    ELSE SelectSeq(sortedByPriority,
                   LAMBDA record : record.priority = sortedByPriority[1].priority)

RECURSIVE SumWeights(_, _)
\* records.slice(0, k).reduce((sum, record) => sum + (record.weight || 1), 0)
SumWeights(records, k) ==
    IF k = 0 THEN 0 ELSE SumWeights(records, k - 1) + OrElse(records[k].weight, 1)

\* selectWeightedSrvRecord: the record and the cursor it leaves. `draw` stands
\* for Math.random() = draw / DrawSteps.
selectWeightedSrvRecord(records, index, draw) ==
    LET n == Len(records) IN
    IF n = 0 THEN [selected |-> null, nextIndex |-> index]
    ELSE IF ~\E i \in 1..n : OrElse(records[i].weight, 0) > 0
    THEN [selected |-> records[(index % n) + 1], nextIndex |-> index + 1]
    ELSE LET totalWeight == SumWeights(records, n)
             \* random <= 0 after subtracting the weights of records 1..k
             Reached(k) == draw * totalWeight <= SumWeights(records, k) * DrawSteps
         IN [selected |-> IF \E k \in 1..n : Reached(k)
                          THEN records[CHOOSE k \in 1..n :
                                   Reached(k) /\ \A j \in 1..(k - 1) : ~Reached(j)]
                          ELSE records[1],
             nextIndex |-> index]

\* A selectFromSrvRecords whose LeastConnection case takes the first record
\* and leaves the cursor alone.
selectFromSrvRecords_LeastConnectionFirst(records, algorithm, index, draw) ==
    LET n == Len(records) IN
    IF n = 0 THEN [selected |-> null, nextIndex |-> index]
    ELSE IF algorithm = RoundRobin
    THEN [selected |-> records[(index % n) + 1], nextIndex |-> (index + 1) % n]
    ELSE IF algorithm = WeightedRoundRobin
    THEN selectWeightedSrvRecord(records, index, draw)
    ELSE [selected |-> records[1], nextIndex |-> index]

\* selectFromSrvRecords: the switch on the algorithm; the cursor is
\* this.currentIndex.
selectFromSrvRecords(records, algorithm, index, draw) ==
    LET n == Len(records) IN
    IF n = 0 THEN [selected |-> null, nextIndex |-> index]
    ELSE IF algorithm = RoundRobin
    THEN [selected |-> records[(index % n) + 1], nextIndex |-> (index + 1) % n]
    ELSE IF algorithm = WeightedRoundRobin
    THEN selectWeightedSrvRecord(records, index, draw)
    ELSE IF algorithm = LeastConnection
    THEN [selected |-> records[(index % n) + 1], nextIndex |-> (index + 1) % n]
    ELSE [selected |-> records[1], nextIndex |-> index]

\* { ip, port } of the result
ServiceInfo(ip, port) == [ip |-> ip, port |-> port]

\* A services list without the record that comes first.
SrvServices_WithoutFirst(sortedByPriority) ==
    [k \in 1..(Len(sortedByPriority) - 1) |->
        ServiceInfo(sortedByPriority[k + 1].ip, sortedByPriority[k + 1].port)]

\* sortedByPriority.map(record => ({ ip: record.ip, port: record.port }))
SrvServices(sortedByPriority) ==
    [k \in 1..Len(sortedByPriority) |->
        ServiceInfo(sortedByPriority[k].ip, sortedByPriority[k].port)]

----------------------------------------------------------------------------
(* ConsulResolver (src/unnamed/part_004): the health path *)

\* new Map(dnsRecords.map(record => [record.ip, {weight, port, priority}])):
\* the last record of an ip stands.
DnsHas(dnsRecords, ip) == \E i \in 1..Len(dnsRecords) : dnsRecords[i].ip = ip

DnsGet(dnsRecords, ip) ==
    dnsRecords[CHOOSE i \in 1..Len(dnsRecords) :
                   /\ dnsRecords[i].ip = ip
                   /\ \A j \in (i + 1)..Len(dnsRecords) : dnsRecords[j].ip # ip]

\* healthChecks.filter(check => dnsWeights.has(check.Service.Address))
MatchedHealthChecks(healthChecks, dnsRecords) ==
    SelectSeq(healthChecks, LAMBDA check : DnsHas(dnsRecords, check.Address))

\* A narrowing that is never applied.
TargetHealthChecks_NoNarrowing(matchedHealthChecks, highestPriorityRecords) ==
    matchedHealthChecks

\* The matched instances of the top priority tier when there are any, else
\* all the matched instances.
TargetHealthChecks(matchedHealthChecks, highestPriorityRecords) ==
    LET highPriorityHealthChecks ==
            SelectSeq(matchedHealthChecks,
                      LAMBDA check : DnsHas(highestPriorityRecords, check.Address))
    IN IF Len(highPriorityHealthChecks) > 0 THEN highPriorityHealthChecks
       ELSE matchedHealthChecks

RECURSIVE MaxWeight(_, _)
\* Math.max(...dnsRecords.map(r => r.weight || 1)), over records 1..k
MaxWeight(dnsRecords, k) ==
    IF k = 1 THEN OrElse(dnsRecords[1].weight, 1)
    ELSE Max(MaxWeight(dnsRecords, k - 1), OrElse(dnsRecords[k].weight, 1))

maxDNSWeight(dnsRecords) == MaxWeight(dnsRecords, Len(dnsRecords))

\* The private roundRobinSelection and leastConnectionSelection of the class
\* are the functions of src/algorithms on this.currentIndex and this.metrics.
ConsulResolver_roundRobinSelection(list, index) == roundRobinSelection(list, index)

ConsulResolver_leastConnectionSelection(list, metrics) ==
    leastConnectionSelection(list, metrics, DEFAULT_METRICS)

\* DEFAULT_WEIGHTS, in hundredths
DEFAULT_WEIGHTS ==
    [health |-> 25, responseTime |-> 20, errorRate |-> 20, resources |-> 15,
     connections |-> 10, distribution |-> 10]

\* calculateHealthScore, in thousandths: 0 for an instance without checks
ConsulResolver_calculateHealthScore(service) ==
    LET totalChecks == Len(service.Checks)
        passingChecks == Cardinality({ i \in 1..totalChecks :
                                          service.Checks[i].Status = "passing" })
    IN IF totalChecks = 0 THEN 0 ELSE (passingChecks * ScoreOne) \div totalChecks

\* normalizeScore, in thousandths; Math.min and Math.max give NaN for NaN
normalizeScore(value, max, inverse) ==
    IF value = NaN THEN NaN
    ELSE LET normalized == Max(0, Min(ScoreOne, (value * ScoreOne) \div max)) IN
         IF inverse THEN ScoreOne - normalized ELSE normalized

\* A sum of numbers is NaN as soon as one of them is.
Sum6(a, b, c, d, e, f) ==
    IF NaN \in {a, b, c, d, e, f} THEN NaN ELSE a + b + c + d + e + f

Times(a, b) == IF a = NaN \/ b = NaN THEN NaN ELSE a * b

\* rankServices: the composite score of one candidate, in units of 1/100000
TotalScore(service, serviceMetrics, time) ==
    LET cpuScore == normalizeScore(serviceMetrics.cpuUsage, 100, TRUE)
        memoryScore == normalizeScore(serviceMetrics.memoryUsage, 100, TRUE)
        resourceScore == IF NaN \in {cpuScore, memoryScore} THEN NaN
                         ELSE (cpuScore + memoryScore) \div 2
    IN Sum6(Times(ConsulResolver_calculateHealthScore(service), DEFAULT_WEIGHTS.health),
            Times(normalizeScore(serviceMetrics.responseTime, 500, TRUE),
                  DEFAULT_WEIGHTS.responseTime),
            Times(normalizeScore(serviceMetrics.errorRate, 100, TRUE),
                  DEFAULT_WEIGHTS.errorRate),
            Times(resourceScore, DEFAULT_WEIGHTS.resources),
            Times(normalizeScore(serviceMetrics.activeConnections, 1000, TRUE),
                  DEFAULT_WEIGHTS.connections),
            Times(calculateDistributionScore(serviceMetrics, time),
                  DEFAULT_WEIGHTS.distribution))

\* The comparator (a, b) => b.score - a.score is positive: b goes before a.
\* A NaN difference counts as 0.
GoesBefore(b, a) == a.score # NaN /\ b.score # NaN /\ b.score > a.score

RECURSIVE InsertRanked(_, _)
\* Insertion of x into a sorted list, behind the entries it does not go before.
InsertRanked(sorted, x) ==
    IF Len(sorted) = 0 THEN <<x>>
    ELSE IF GoesBefore(x, sorted[Len(sorted)])
    THEN Append(InsertRanked(SubSeq(sorted, 1, Len(sorted) - 1), x), sorted[Len(sorted)])
    ELSE Append(sorted, x)

\* A sort that leaves the list as it is.
SortRanked_Unsorted(list, k) == SubSeq(list, 1, k)

RECURSIVE SortRanked(_, _)
\* .sort((a, b) => b.score - a.score) of the first k entries: stable, by
\* insertion.
SortRanked(list, k) ==
    IF k = 0 THEN <<>> ELSE InsertRanked(SortRanked(list, k - 1), list[k])

\* rankServices: throws when a candidate has no entry in the metrics map.
rankServices(list, metrics, time) ==
    IF \E i \in 1..Len(list) : list[i].ID \notin DOMAIN metrics
    THEN Threw("No metrics found for service")
    ELSE [threw |-> "",
          ranked |-> SortRanked(
              [i \in 1..Len(list) |->
                  [score |-> TotalScore(list[i], metrics[list[i].ID], time),
                   id |-> list[i].ID, service |-> list[i]]],
              Len(list))]

\* ranked.score *= (1 + dnsInfo.weight / maxDNSWeight), every score kept
\* multiplied by maxDNSWeight so that it stays an integer.
Boosted(rankedServices, dnsRecords) ==
    [i \in 1..Len(rankedServices) |->
        [rankedServices[i] EXCEPT !.score =
            Times(@, IF DnsHas(dnsRecords, rankedServices[i].service.Address)
                     THEN maxDNSWeight(dnsRecords)
                              + DnsGet(dnsRecords, rankedServices[i].service.Address).weight
                     ELSE maxDNSWeight(dnsRecords))]]

RECURSIVE SumScores(_, _)
SumScores(rankedServices, k) ==
    IF k = 0 THEN 0
    ELSE IF NaN \in {SumScores(rankedServices, k - 1), rankedServices[k].score} THEN NaN
    ELSE SumScores(rankedServices, k - 1) + rankedServices[k].score

\* weightedRandomSelection: a comparison with NaN is false, so a NaN total
\* falls through the loop to rankedServices[0].
weightedRandomSelection(rankedServices, draw) ==
    LET n == Len(rankedServices)
        totalScore == SumScores(rankedServices, n)
        Reached(k) == /\ totalScore # NaN
                      /\ draw * totalScore <= SumScores(rankedServices, k) * DrawSteps
        Picked(k) == [threw |-> "", id |-> rankedServices[k].id,
                      service |-> rankedServices[k].service]
    IN IF n = 0 THEN Threw("No services available for selection")
       ELSE IF totalScore # NaN /\ totalScore <= 0 THEN Picked(1)
       ELSE IF \E k \in 1..n : Reached(k)
       THEN Picked(CHOOSE k \in 1..n : Reached(k) /\ \A j \in 1..(k - 1) : ~Reached(j))
       ELSE Picked(1)

\* A services list that reports the ports the registry declares.
HealthServices_RegistryPorts(matchedHealthChecks, dnsRecords) ==
    [k \in 1..Len(matchedHealthChecks) |->
        ServiceInfo(matchedHealthChecks[k].Address, matchedHealthChecks[k].Port)]

\* services: matchedHealthChecks.map(check => ({ip, port: dnsInfo?.port || Port}))
HealthServices(matchedHealthChecks, dnsRecords) ==
    [k \in 1..Len(matchedHealthChecks) |->
        ServiceInfo(matchedHealthChecks[k].Address,
            IF DnsHas(dnsRecords, matchedHealthChecks[k].Address)
            THEN OrElse(DnsGet(dnsRecords, matchedHealthChecks[k].Address).port,
                        matchedHealthChecks[k].Port)
            ELSE matchedHealthChecks[k].Port)]

----------------------------------------------------------------------------
(* ConsulResolver.selectOptimalService and what it calls *)

\* JSON.stringify of an array of records that hold strings and integers
JSONstringifyArray(list) == [kind |-> "json", value |-> list]

\* Where a call can meet a failure: the two providers, and each use of Redis.
StorePoints ==
    {"healthCacheGet", "dnsCacheGet", "healthCacheSet", "dnsCacheSet", "exec",
     "metricsGet", "metricsSet"}
ProviderPoints == {"healthProvider", "dnsProvider"}

\* One point fails, or both providers, or Redis as a whole, or nothing.
Failures == {"none", "providers", "store"} \cup ProviderPoints \cup StorePoints

Fails(failure, point) ==
    \/ failure = point
    \/ failure = "providers" /\ point \in ProviderPoints
    \/ failure = "store" /\ point \in StorePoints

\* getHealthChecks: the cache is read outside the try, the provider is called
\* and the answer cached inside it.
getHealthChecks(service, store, enabled, registry, failure) ==
    LET cacheKey == getHealthCacheKey(service)
        cachedHealth == store[cacheKey]
    IN IF enabled /\ Fails(failure, "healthCacheGet")
       THEN [threw |-> "redis get", value |-> <<>>, store |-> store]
       ELSE IF enabled /\ Truthy(cachedHealth)
       THEN IF JSONparses(cachedHealth)
            THEN [threw |-> "", value |-> JSONparse(cachedHealth), store |-> store]
            ELSE [threw |-> "SyntaxError", value |-> <<>>, store |-> store]
       ELSE IF Fails(failure, "healthProvider")
       THEN [threw |-> "", value |-> <<>>, store |-> store]
       ELSE IF enabled /\ Fails(failure, "healthCacheSet")
       THEN [threw |-> "", value |-> <<>>, store |-> store]
       ELSE [threw |-> "", value |-> registry,
             store |-> IF enabled
                       THEN RedisSet(store, cacheKey, JSONstringifyArray(registry))
                       ELSE store]

\* resolveDNS: `answers` are the SRV answers that come with an A record.
resolveDNS(service, store, enabled, answers, failure) ==
    LET cacheKey == getDNSCacheKey(service)
        cachedData == store[cacheKey]
    IN IF enabled /\ Fails(failure, "dnsCacheGet")
       THEN [threw |-> "redis get", value |-> <<>>, store |-> store]
       ELSE IF enabled /\ Truthy(cachedData)
       THEN IF JSONparses(cachedData)
            THEN [threw |-> "", value |-> JSONparse(cachedData), store |-> store]
            ELSE [threw |-> "SyntaxError", value |-> <<>>, store |-> store]
       ELSE IF Fails(failure, "dnsProvider")
       THEN [threw |-> "", value |-> <<>>, store |-> store]
       ELSE IF Len(answers) = 0
       THEN [threw |-> "", value |-> <<>>, store |-> store]
       ELSE IF enabled /\ Fails(failure, "dnsCacheSet")
       THEN [threw |-> "", value |-> <<>>, store |-> store]
       ELSE [threw |-> "", value |-> answers,
             store |-> IF enabled
                       THEN RedisSet(store, cacheKey, JSONstringifyArray(answers))
                       ELSE store]

\* A selection that is not recorded.
updateSelectionMetrics_Skipped(store, serviceId, enabled, failure, time) == store

\* updateSelectionMetrics: the store it leaves; every error is swallowed.
updateSelectionMetrics(store, serviceId, enabled, failure, time) ==
    LET connectionKey == getConnectionKey(serviceId)
        existingMetrics == IF enabled THEN store[connectionKey] ELSE Nil
    IN IF enabled /\ Fails(failure, "metricsGet") THEN store
       ELSE IF Truthy(existingMetrics) /\ ~JSONparses(existingMetrics) THEN store
       ELSE IF ~enabled \/ Fails(failure, "metricsSet") THEN store
       ELSE RedisSet(store, connectionKey,
                JSONstringify(SelectedMetrics(existingMetrics, DEFAULT_METRICS, time)))

NullResult == [selected |-> null, services |-> <<>>]

\* An error that leaves selectOptimalService instead of being caught (no such
\* path exists in the code: the whole body is inside the try).
Caught_Rethrown(error, index, store) ==
    [result |-> [raised |-> error], threw |-> error, path |-> "catch",
     nextIndex |-> index, store |-> store]

\* What the catch of selectOptimalService returns, with the error it caught.
Caught(error, index, store) ==
    [result |-> NullResult, threw |-> error, path |-> "catch",
     nextIndex |-> index, store |-> store]

\* The SRV-only path: selectFromSrvRecords over the top priority tier.
SrvOnly(sortedByPriority, algorithm, index, draw, store, enabled, failure, time) ==
    LET picked == selectFromSrvRecords(HighestPriorityRecords(sortedByPriority),
                                       algorithm, index, draw)
    IN IF picked.selected = null
       THEN [result |-> NullResult, threw |-> "", path |-> "srv",
             nextIndex |-> picked.nextIndex, store |-> store]
       ELSE [result |-> [selected |-> ServiceInfo(picked.selected.ip, picked.selected.port),
                         services |-> SrvServices(sortedByPriority)],
             threw |-> "", path |-> "srv", nextIndex |-> picked.nextIndex,
             store |-> updateSelectionMetrics(store, picked.selected.name, enabled,
                                              failure, time)]

\* The health path: the algorithm over the target instances.
HealthPath(healthChecks, dnsRecords, algorithm, index, draw, store, enabled, failure, time) ==
    LET matchedHealthChecks == MatchedHealthChecks(healthChecks, dnsRecords)
        targetHealthChecks ==
            TargetHealthChecks(matchedHealthChecks,
                               HighestPriorityRecords(sortByPriority(dnsRecords)))
        metrics == ConsulResolver_getServicesMetrics(targetHealthChecks, store, enabled,
                       IF ~enabled THEN "null"
                       ELSE IF Fails(failure, "exec") THEN "rejects" ELSE "replies",
                       DEFAULT_METRICS)
        ranked == rankServices(targetHealthChecks, metrics, time)
        selectedService ==
            CASE algorithm = RoundRobin ->
                     ConsulResolver_roundRobinSelection(targetHealthChecks, index)
              [] algorithm = LeastConnection ->
                     ConsulResolver_leastConnectionSelection(targetHealthChecks, metrics)
              [] algorithm = WeightedRoundRobin ->
                     IF ranked.threw # "" THEN ranked
                     ELSE weightedRandomSelection(Boosted(ranked.ranked, dnsRecords), draw)
    IN IF selectedService.threw # "" THEN Caught(selectedService.threw, index, store)
       ELSE [result |->
                [selected |->
                     ServiceInfo(selectedService.service.Address,
                         IF DnsHas(dnsRecords, selectedService.service.Address)
                         THEN OrElse(DnsGet(dnsRecords,
                                            selectedService.service.Address).port,
                                     selectedService.service.Port)
                         ELSE selectedService.service.Port),
                 services |-> HealthServices(matchedHealthChecks, dnsRecords)],
             threw |-> "", path |-> "health",
             nextIndex |-> IF algorithm = RoundRobin THEN selectedService.nextIndex
                           ELSE index,
             store |-> updateSelectionMetrics(store, selectedService.id, enabled,
                                              failure, time)]

\* An orchestrator that gives up when no instance matches an SRV record.
Outcome_NoMatchIsNull(service, algorithm, failure, draw, store, index, enabled, registry, answers, time) ==
    LET health == getHealthChecks(service, store, enabled, registry, failure)
        dns == resolveDNS(service, health.store, enabled, answers, failure)
        healthChecks == health.value
        dnsRecords == dns.value
    IN IF health.threw # "" THEN Caught(health.threw, index, dns.store)
       ELSE IF dns.threw # "" THEN Caught(dns.threw, index, dns.store)
       ELSE IF Len(healthChecks) = 0 /\ Len(dnsRecords) = 0
       THEN [result |-> NullResult, threw |-> "", path |-> "empty",
             nextIndex |-> index, store |-> dns.store]
       ELSE IF Len(healthChecks) = 0
       THEN SrvOnly(sortByPriority(dnsRecords), algorithm, index, draw, dns.store,
                    enabled, failure, time)
       ELSE IF Len(MatchedHealthChecks(healthChecks, dnsRecords)) = 0
       THEN [result |-> NullResult, threw |-> "", path |-> "srv",
             nextIndex |-> index, store |-> dns.store]
       ELSE HealthPath(healthChecks, dnsRecords, algorithm, index, draw, dns.store,
                       enabled, failure, time)

\* selectOptimalService: what it returns, the error its catch met if any, the
\* cursor and the store it leaves. getHealthChecks and resolveDNS run under
\* Promise.all: when one rejects the other still runs to its end.
Outcome(service, algorithm, failure, draw, store, index, enabled, registry, answers, time) ==
    LET health == getHealthChecks(service, store, enabled, registry, failure)
        dns == resolveDNS(service, health.store, enabled, answers, failure)
        healthChecks == health.value
        dnsRecords == dns.value
    IN IF health.threw # "" THEN Caught(health.threw, index, dns.store)
       ELSE IF dns.threw # "" THEN Caught(dns.threw, index, dns.store)
       ELSE IF Len(healthChecks) = 0 /\ Len(dnsRecords) = 0
       THEN [result |-> NullResult, threw |-> "", path |-> "empty",
             nextIndex |-> index, store |-> dns.store]
       ELSE IF Len(healthChecks) = 0
               \/ Len(MatchedHealthChecks(healthChecks, dnsRecords)) = 0
       THEN SrvOnly(sortByPriority(dnsRecords), algorithm, index, draw, dns.store,
                    enabled, failure, time)
       ELSE HealthPath(healthChecks, dnsRecords, algorithm, index, draw, dns.store,
                       enabled, failure, time)

\* The populations a call saw: the cached ones, the live ones, or none.
SeenHealth(service, failure) ==
    getHealthChecks(service, redis, cacheEnabled, consul, failure).value
SeenDNS(service, failure) ==
    resolveDNS(service, redis, cacheEnabled, srv, failure).value

----------------------------------------------------------------------------
(* Spec: one resolver, a registry and a DNS zone that do not change,        *)
(* selectOptimalService called again and again                               *)

Absent == [absent |-> TRUE]

\* At each address: no instance, an instance that passes its check, or one
\* that fails it.
Registries ==
    { SelectSeq([i \in 1..Cardinality(AddrIndices) |->
                    IF c[i] = "absent" THEN Absent
                    ELSE ServiceHealth(i, <<Check(c[i])>>)],
                LAMBDA x : x # Absent)
      : c \in [AddrIndices -> {"absent", "passing", "critical"}] }

\* <<priority, weight>> of an SRV record
SrvShapes == {<<1, 0>>, <<1, 2>>, <<2, 1>>}

\* At each address: no SRV record, or one of the shapes.
SrvAnswers ==
    UNION { { SelectSeq([i \in 1..Cardinality(AddrIndices) |->
                            IF i \in S THEN SrvRecord(i, f[i][1], f[i][2]) ELSE Absent],
                        LAMBDA x : x # Absent)
              : f \in [S -> SrvShapes] }
            : S \in SUBSET AddrIndices }

Init ==
    /\ consul \in Registries
    /\ srv \in SrvAnswers
    /\ cacheEnabled \in BOOLEAN
    /\ redis = EmptyStore
    /\ now = 1
    /\ currentIndex = 0
    /\ call = NotCalled
    /\ AlgIdle /\ TtlIdle /\ SeqIdle /\ RaceIdle

selectOptimalService(service, algorithm, failure) ==
    /\ call = NotCalled
    /\ failure \in StorePoints \cup {"store"} => cacheEnabled
    /\ \E draw \in IF algorithm = WeightedRoundRobin THEN 0..(DrawSteps - 1) ELSE {0} :
       \E outcome \in {Outcome(service, algorithm, failure, draw, redis, currentIndex,
                               cacheEnabled, consul, srv, now)} :
           /\ outcome.nextIndex <= Cardinality(AddrIndices)
           /\ currentIndex' = outcome.nextIndex
           /\ redis' = outcome.store
           /\ call' = [called |-> TRUE, service |-> service, algorithm |-> algorithm,
                       failure |-> failure, draw |-> draw, index |-> currentIndex,
                       healthChecks |-> SeenHealth(service, failure),
                       dnsRecords |-> SeenDNS(service, failure),
                       path |-> outcome.path, threw |-> outcome.threw,
                       result |-> outcome.result]
    /\ UNCHANGED <<consul, srv, cacheEnabled, now, algVars, ttlVars, seqVars, raceVars>>

\* The caller takes the result; the resolver is ready for the next call.
Return ==
    /\ call # NotCalled
    /\ call' = NotCalled
    /\ UNCHANGED <<consul, srv, currentIndex, storeVars, algVars, ttlVars, seqVars, raceVars>>

Next ==
    \/ \E service \in ServiceNames, algorithm \in SelectionAlgorithm, failure \in Failures :
           selectOptimalService(service, algorithm, failure)
    \/ Return

Spec == Init /\ [][Next]_vars

----------------------------------------------------------------------------
(* Claims about selectOptimalService *)

\* The call came back with a result of the shape {selected, services}.
Completed_Result == DOMAIN call.result = {"selected", "services"}

\* The instances the algorithm of the last call was run over.
TargetOf(c) ==
    TargetHealthChecks(MatchedHealthChecks(c.healthChecks, c.dnsRecords),
                       HighestPriorityRecords(sortByPriority(c.dnsRecords)))

C1_WitnessStore ==
    /\ call.called
    /\ call.failure = "healthCacheGet"
    /\ call.threw # ""
    /\ call.result = NullResult

\* The health provider failed and the caller got a selection all the same.
C1_WitnessAbsorbed ==
    /\ call.called
    /\ call.failure = "healthProvider"
    /\ call.healthChecks = <<>>
    /\ call.result.selected # null


----------------------------------------------------------------------------
(* SpecSeeded: the read operations on a store that other writers have       *)
(* filled: metrics records, a metrics blob under the bare id, and strings    *)
(* that are not JSON                                                         *)

\* A stored string that JSON.parse rejects.
Garbage == [kind |-> "text"]

\* Connection records as incrementConnections and updateSelectionMetrics
\* leave them.
SeedRecords ==
    { JSONstringify([DEFAULT_METRICS EXCEPT !.activeConnections = 2]),
      JSONstringify(WithLastSelectedTime(DEFAULT_METRICS, 1)) }

\* A metrics blob stored under the bare service id.
SeedBlob ==
    JSONstringify([responseTime |-> 200, errorRate |-> 10, cpuUsage |-> 20,
                   memoryUsage |-> 30, activeConnections |-> 1])

SeededStores ==
    { [k \in Keys |->
          IF k.name \notin MetricIds THEN Nil
          ELSE IF k = getConnectionKey(k.name) THEN c[k.name]
          ELSE IF k = BareKey(k.name) THEN b[k.name]
          ELSE Nil]
      : c \in [MetricIds -> {Nil, Garbage} \cup SeedRecords],
        b \in [MetricIds -> {Nil, Garbage, SeedBlob}] }

SeededInit ==
    /\ redis \in SeededStores
    /\ cacheEnabled = TRUE
    /\ now = 1
    /\ SeqIdle /\ AlgIdle /\ TtlIdle /\ RaceIdle /\ ResIdle

SeededNext ==
    \/ \E id \in MetricIds : getSelectionMetrics(id)
    \/ \E list \in CandidateLists : MetricsManagerGetServicesMetrics(list)
    \/ \E list \in CandidateLists : ConsulResolverGetServicesMetrics(list)

SpecSeeded == SeededInit /\ [][SeededNext]_vars

----------------------------------------------------------------------------
(* Claims about the reads of the metrics store *)

\* The stored string is there and is not JSON.
Unparseable(text) == Truthy(text) /\ ~JSONparses(text)

\* Every field of m but activeConnections is the field of the blob stored
\* under the bare id, or the default when there is no blob.
KeepsBlob(m, blob) ==
    LET base == IF Truthy(blob) THEN JSONparse(blob) ELSE DEFAULT_METRICS IN
    /\ DOMAIN m = DOMAIN base
    /\ \A f \in DOMAIN base \ {"activeConnections"} : m[f] = base[f]

\* C11: getServicesMetrics never throws and returns an entry for every
\* candidate id; when the whole batch fails every candidate gets the default
\* metrics; when one candidate's stored value cannot be parsed only that
\* candidate is defaulted, the others keep what is stored for them.
C11_FailSoftPerItem ==
    (last.called /\ last.op \in GetServicesMetricsOps)
    => /\ ~last.threw
       /\ DOMAIN last.ret = IdsOf(last.arg)
       /\ last.failure # "replies"
              => \A id \in IdsOf(last.arg) : last.ret[id] = DEFAULT_METRICS
       /\ last.failure = "replies"
              => \A id \in IdsOf(last.arg) :
                    LET blob == redis[BareKey(id)]
                        conn == redis[getConnectionKey(id)]
                    IN IF last.op = "MetricsManager.getServicesMetrics"
                       THEN IF Unparseable(blob) \/ Unparseable(conn)
                            THEN last.ret[id] = DEFAULT_METRICS
                            ELSE /\ KeepsBlob(last.ret[id], blob)
                                 /\ Truthy(conn)
                                        => last.ret[id].activeConnections
                                               = ConnectionsIn(conn)
                       ELSE IF Unparseable(blob)
                            THEN last.ret[id] = DEFAULT_METRICS
                            ELSE KeepsBlob(last.ret[id], blob)

\* One candidate's record is not JSON, the other's record counts 2: the
\* first gets the defaults, the second keeps its count.
C11_Witness ==
    /\ last.called /\ last.op = "MetricsManager.getServicesMetrics"
    /\ last.failure = "replies"
    /\ Len(last.arg) = 3
    /\ redis[getConnectionKey("s1")] = Garbage
    /\ last.ret["s1"] = DEFAULT_METRICS
    /\ redis[BareKey("s2")] = SeedBlob
    /\ last.ret["s2"].activeConnections = 2
    /\ last.ret["s2"].responseTime = 200


\* C12: getSelectionMetrics(id) returns null when no record exists for id and
\* when the store read fails (it never raises); otherwise it returns the
\* stored record; it never modifies the store.
C12_ReadOnlyNullOnMissOrError ==
    (last.called /\ last.op = "getSelectionMetrics")
    => LET reply == last.before[getConnectionKey(last.id)] IN
       /\ ~last.threw
       /\ redis = last.before
       /\ last.failure = "get" => last.ret = null
       /\ ~Truthy(reply) => last.ret = null
       /\ Unparseable(reply) => last.ret = null
       /\ (last.failure = "none" /\ Truthy(reply) /\ JSONparses(reply))
              => (last.ret # null /\ JSONstringify(last.ret) = reply)

\* A record is stored and the read returns it.
C12_Witness ==
    /\ last.called /\ last.op = "getSelectionMetrics"
    /\ last.failure = "none"
    /\ last.ret # null
    /\ last.ret.activeConnections = 2

\* The store read fails on a key that holds a record: null.
C12_WitnessError ==
    /\ last.called /\ last.op = "getSelectionMetrics"
    /\ last.failure = "get"
    /\ Truthy(last.before[getConnectionKey(last.id)])
    /\ last.ret = null


----------------------------------------------------------------------------
(* SpecDisabled: a MetricsManager built with cacheEnabled = false over a     *)
(* Redis that another, enabled, manager has written to                       *)

DisabledInit ==
    /\ redis \in SeededStores
    /\ cacheEnabled = FALSE
    /\ now = 1
    /\ SeqIdle /\ AlgIdle /\ TtlIdle /\ RaceIdle /\ ResIdle

SpecDisabled == DisabledInit /\ [][MetricsNext]_vars

\* C13: in cache-disabled mode, whatever sequence of incrementConnections,
\* decrementConnections, updateSelectionMetrics, getSelectionMetrics and
\* getServicesMetrics calls is made, the store contents never change and every
\* read returns what an always-empty store would give (null, the default
\* metrics), whatever the store holds.
C13_DisabledIsEmptyStore ==
    (~cacheEnabled /\ last.called)
    => /\ redis = last.before
       /\ ~last.threw
       /\ last.op = "getSelectionMetrics" => last.ret = null
       /\ last.op \in GetServicesMetricsOps
              => /\ DOMAIN last.ret = IdsOf(last.arg)
                 /\ \A id \in IdsOf(last.arg) : last.ret[id] = DEFAULT_METRICS

\* The store holds a record counting 2 for s1 and a blob under its bare id;
\* after a decrementConnections the batch read still gives s1 the defaults.
C13_Witness ==
    /\ ~cacheEnabled
    /\ last.called /\ last.op = "MetricsManager.getServicesMetrics"
    /\ last.failure = "replies"
    /\ prev.called /\ prev.op = "decrementConnections" /\ prev.id = "s1"
    /\ Truthy(redis[getConnectionKey("s1")]) /\ JSONparses(redis[getConnectionKey("s1")])
    /\ StoredConnections(redis, "s1") = 2
    /\ redis[BareKey("s1")] = SeedBlob
    /\ last.ret["s1"] = DEFAULT_METRICS


----------------------------------------------------------------------------
(* Claims about the paths of selectOptimalService *)

\* The SRV records of D whose priority is the minimum present in D.
TopTier(dnsRecords) ==
    { dnsRecords[i] : i \in { i \in 1..Len(dnsRecords) :
          \A j \in 1..Len(dnsRecords) : dnsRecords[i].priority <= dnsRecords[j].priority } }

\* The selected endpoint is the endpoint of a record of the top tier.
SelectedFromTopTier(c) ==
    /\ c.result.selected # null
    /\ \E record \in TopTier(c.dnsRecords) :
          c.result.selected = ServiceInfo(record.ip, record.port)

\* C14: when the health-checked population H is empty and the SRV population
\* D is not, selectOptimalService returns a non-null selection that is a
\* record of the top priority tier P; a record of a less preferred priority
\* is never selected on this path.
C14_SrvOnlyTopTier ==
    (call.called /\ call.threw = "" /\ call.healthChecks = <<>> /\ call.dnsRecords # <<>>)
    => (call.path = "srv" /\ SelectedFromTopTier(call))

\* D lists a priority-2 record before a priority-1 record; the cursor stands
\* at 1; the priority-1 record is returned.
C14_Witness ==
    /\ call.called /\ call.threw = ""
    /\ call.healthChecks = <<>>
    /\ Len(call.dnsRecords) = 2
    /\ call.dnsRecords[1].priority = 2
    /\ call.dnsRecords[2].priority = 1
    /\ call.index = 1
    /\ call.result.selected = ServiceInfo(call.dnsRecords[2].ip, call.dnsRecords[2].port)


\* What the same call gives when H is empty: the providers answer, nothing is
\* registered, no cache stands in between.
WithoutHealth(c) ==
    Outcome(c.service, c.algorithm, "none", c.draw, EmptyStore, c.index, FALSE,
            <<>>, c.dnsRecords, now)

\* C15: when H is non-empty but no health-checked instance's address matches
\* an SRV record (M is empty), selectOptimalService behaves as in the H-empty
\* case: the result and the cursor are those of the same call with H empty,
\* and when D is not empty the result is a record of the top tier P rather
\* than {selected: null}.
C15_NoMatchFallsBackToSrv ==
    (call.called /\ call.threw = "" /\ call.healthChecks # <<>>
        /\ MatchedHealthChecks(call.healthChecks, call.dnsRecords) = <<>>)
    => /\ call.path = "srv"
       /\ call.result = WithoutHealth(call).result
       /\ currentIndex = WithoutHealth(call).nextIndex
       /\ call.dnsRecords # <<>> => SelectedFromTopTier(call)

\* An instance is registered at the first address, the only SRV record is at
\* the second: the SRV record is returned.
C15_Witness ==
    /\ call.called /\ call.threw = ""
    /\ Len(call.healthChecks) = 1 /\ call.healthChecks[1].Address = Addresses[1]
    /\ AllPassing(call.healthChecks[1])
    /\ Len(call.dnsRecords) = 1 /\ call.dnsRecords[1].ip = Addresses[2]
    /\ call.result.selected = ServiceInfo(Addresses[2], call.dnsRecords[1].port)
    /\ call.result.services = <<ServiceInfo(Addresses[2], call.dnsRecords[1].port)>>


----------------------------------------------------------------------------
(* SpecResolver: the ConsulResolver of src/resolver.ts, which asks the      *)
(* registry and the DNS provider on every call and caches neither answer     *)

\* resolveDNS of src/resolver.ts: nothing is cached, every error gives [].
Resolver_resolveDNS(answers, failure) ==
    IF Fails(failure, "dnsProvider") THEN <<>> ELSE answers

\* roundRobinSelection of src/resolver.ts: healthyServices[this.currentIndex]
\* is read without a modulo; the cursor is advanced before service.Service.ID
\* is read, which throws when the cursor is past the end.
Resolver_roundRobinSelection(list, index) ==
    LET healthyServices == HealthyServices(list) IN
    IF Len(healthyServices) = 0
    THEN [threw |-> "No healthy services available", nextIndex |-> index]
    ELSE IF index >= Len(healthyServices)
    THEN [threw |-> "TypeError", nextIndex |-> (index + 1) % Len(healthyServices)]
    ELSE [threw |-> "", id |-> healthyServices[index + 1].ID,
          service |-> healthyServices[index + 1],
          nextIndex |-> (index + 1) % Len(healthyServices)]

RECURSIVE Resolver_MaxWeight(_, _)
\* Math.max(...dnsRecords.map(r => r.weight)), over records 1..k
Resolver_MaxWeight(dnsRecords, k) ==
    IF k = 1 THEN dnsRecords[1].weight
    ELSE Max(Resolver_MaxWeight(dnsRecords, k - 1), dnsRecords[k].weight)

\* ranked.score *= (1 + dnsInfo.weight / maxDNSWeight): 0 / 0 is NaN; else
\* every score is kept multiplied by maxDNSWeight.
Resolver_Boosted(rankedServices, dnsRecords) ==
    LET maxDNSWeight_ == Resolver_MaxWeight(dnsRecords, Len(dnsRecords)) IN
    [i \in 1..Len(rankedServices) |->
        [rankedServices[i] EXCEPT !.score =
            IF ~DnsHas(dnsRecords, rankedServices[i].service.Address)
            THEN Times(@, maxDNSWeight_)
            ELSE IF maxDNSWeight_ = 0 THEN NaN
            ELSE Times(@, maxDNSWeight_
                          + DnsGet(dnsRecords, rankedServices[i].service.Address).weight)]]

\* selectOptimalService of src/resolver.ts: a rejected registry call is caught;
\* with no instance at the address of an SRV record it warns and returns the
\* empty result; the algorithm runs over all the matched instances.
\* calculateHealthScore of this class: passingChecks / totalChecks with no test
\* of totalChecks, so 0 / 0 for an instance without checks.
Resolver_calculateHealthScore(service) ==
    LET totalChecks == Len(service.Checks)
        passingChecks == Cardinality({ i \in 1..totalChecks :
                                          service.Checks[i].Status = "passing" })
    IN IF totalChecks = 0 THEN NaN ELSE (passingChecks * ScoreOne) \div totalChecks

\* The composite score of this class: the same six terms, the health term
\* from its own calculateHealthScore; a NaN term makes the sum NaN.
Resolver_TotalScore(service, serviceMetrics, time) ==
    IF Resolver_calculateHealthScore(service) = NaN THEN NaN
    ELSE TotalScore(service, serviceMetrics, time)
             - Times(ConsulResolver_calculateHealthScore(service), DEFAULT_WEIGHTS.health)
             + Times(Resolver_calculateHealthScore(service), DEFAULT_WEIGHTS.health)

\* rankServices of this class.
Resolver_rankServices(list, metrics, time) ==
    IF \E i \in 1..Len(list) : list[i].ID \notin DOMAIN metrics
    THEN Threw("No metrics found for service")
    ELSE [threw |-> "",
          ranked |-> SortRanked(
              [i \in 1..Len(list) |->
                  [score |-> Resolver_TotalScore(list[i], metrics[list[i].ID], time),
                   id |-> list[i].ID, service |-> list[i]]],
              Len(list))]

Resolver_Outcome(algorithm, failure, draw, store, index, registry, answers, time) ==
    LET healthChecks == registry
        dnsRecords == Resolver_resolveDNS(answers, failure)
        matchedHealthChecks == MatchedHealthChecks(healthChecks, dnsRecords)
        metrics == ConsulResolver_getServicesMetrics(matchedHealthChecks, store, TRUE,
                       IF Fails(failure, "exec") THEN "rejects" ELSE "replies",
                       DEFAULT_METRICS)
        ranked == Resolver_rankServices(matchedHealthChecks, metrics, time)
        selectedService ==
            CASE algorithm = RoundRobin ->
                     Resolver_roundRobinSelection(matchedHealthChecks, index)
              [] algorithm = LeastConnection ->
                     [nextIndex |-> index]
                         @@ ConsulResolver_leastConnectionSelection(matchedHealthChecks,
                                                                    metrics)
              [] algorithm = WeightedRoundRobin ->
                     [nextIndex |-> index]
                         @@ (IF ranked.threw # "" THEN ranked
                             ELSE weightedRandomSelection(
                                      Resolver_Boosted(ranked.ranked, dnsRecords), draw))
    IN IF Fails(failure, "healthProvider") THEN Caught("consul", index, store)
       ELSE IF Len(healthChecks) = 0 /\ Len(dnsRecords) = 0
       THEN [result |-> NullResult, threw |-> "", path |-> "empty",
             nextIndex |-> index, store |-> store]
       ELSE IF Len(matchedHealthChecks) = 0
       THEN [result |-> NullResult, threw |-> "", path |-> "nomatch",
             nextIndex |-> index, store |-> store]
       ELSE IF selectedService.threw # ""
       THEN Caught(selectedService.threw, selectedService.nextIndex, store)
       ELSE [result |->
                [selected |->
                     ServiceInfo(selectedService.service.Address,
                         OrElse(DnsGet(dnsRecords, selectedService.service.Address).port,
                                selectedService.service.Port)),
                 services |-> HealthServices(matchedHealthChecks, dnsRecords)],
             threw |-> "", path |-> "health",
             nextIndex |-> selectedService.nextIndex,
             store |-> updateSelectionMetrics(store, selectedService.id, TRUE,
                                              failure, time)]

\* Where a call of this class can meet a failure.
ResolverFailures ==
    {"none", "healthProvider", "dnsProvider", "exec", "metricsGet", "metricsSet"}

\* this.redis = config.redis: the store is always in use.
ResolverInit ==
    /\ consul \in Registries
    /\ srv \in SrvAnswers
    /\ cacheEnabled = TRUE
    /\ redis = EmptyStore
    /\ now = 1
    /\ currentIndex = 0
    /\ call = NotCalled
    /\ AlgIdle /\ TtlIdle /\ SeqIdle /\ RaceIdle

Resolver_selectOptimalService(service, algorithm, failure) ==
    /\ call = NotCalled
    /\ \E draw \in IF algorithm = WeightedRoundRobin THEN 0..(DrawSteps - 1) ELSE {0} :
       \E outcome \in {Resolver_Outcome(algorithm, failure, draw, redis, currentIndex,
                                        consul, srv, now)} :
           /\ currentIndex' = outcome.nextIndex
           /\ redis' = outcome.store
           /\ call' = [called |-> TRUE, service |-> service, algorithm |-> algorithm,
                       failure |-> failure, draw |-> draw, index |-> currentIndex,
                       healthChecks |-> IF Fails(failure, "healthProvider") THEN <<>>
                                        ELSE consul,
                       dnsRecords |-> Resolver_resolveDNS(srv, failure),
                       path |-> outcome.path, threw |-> outcome.threw,
                       result |-> outcome.result]
    /\ UNCHANGED <<consul, srv, cacheEnabled, now, algVars, ttlVars, seqVars, raceVars>>

ResolverNext ==
    \/ \E service \in ServiceNames, algorithm \in SelectionAlgorithm,
          failure \in ResolverFailures :
           Resolver_selectOptimalService(service, algorithm, failure)
    \/ Return

SpecResolver == ResolverInit /\ [][ResolverNext]_vars

\* C15, for the class of src/resolver.ts: when H is non-empty, D is non-empty
\* and no instance's address matches an SRV record, the call returns a record
\* of the top tier P rather than {selected: null}.
C15_ResolverNoMatchFallsBack ==
    (call.called /\ call.threw = "" /\ call.healthChecks # <<>>
        /\ call.dnsRecords # <<>>
        /\ MatchedHealthChecks(call.healthChecks, call.dnsRecords) = <<>>)
    => SelectedFromTopTier(call)


----------------------------------------------------------------------------
(* Claims about the priority narrowing of selectOptimalService (Spec) *)

\* The addresses of the top tier P of D.
TopTierIPs(dnsRecords) == { record.ip : record \in TopTier(dnsRecords) }

\* The matched instances whose address is in P.
MatchedInTopTier(c) ==
    SelectSeq(MatchedHealthChecks(c.healthChecks, c.dnsRecords),
              LAMBDA check : check.Address \in TopTierIPs(c.dnsRecords))

\* The candidate set as the claim states it.
Candidates(c) ==
    IF MatchedInTopTier(c) # <<>> THEN MatchedInTopTier(c)
    ELSE MatchedHealthChecks(c.healthChecks, c.dnsRecords)

\* The call reached the selection algorithm: H and M are not empty.
ReachedAlgorithm(c) ==
    /\ c.called /\ c.healthChecks # <<>>
    /\ MatchedHealthChecks(c.healthChecks, c.dnsRecords) # <<>>

\* C16: in the health path the algorithm runs over the matched instances of
\* the top tier P when there are any and over all of M otherwise: the selected
\* instance is one of these candidates (under RoundRobin the one the cursor
\* designates among their healthy ones), "No healthy services available" is
\* raised only when none of them is healthy, and whenever some matched
\* instance is in P the selected address belongs to P.
C16_NarrowedToTopTier ==
    /\ (ReachedAlgorithm(call) /\ call.threw = "")
       => /\ call.path = "health"
          /\ \E i \in 1..Len(Candidates(call)) :
                call.result.selected.ip = Candidates(call)[i].Address
          /\ call.algorithm = RoundRobin
             => /\ HealthyServices(Candidates(call)) # <<>>
                /\ call.result.selected.ip =
                     HealthyServices(Candidates(call))
                         [(call.index % Len(HealthyServices(Candidates(call)))) + 1].Address
          /\ MatchedInTopTier(call) # <<>>
             => call.result.selected.ip \in TopTierIPs(call.dnsRecords)
    /\ (ReachedAlgorithm(call) /\ call.threw = "No healthy services available")
       => HealthyServices(Candidates(call)) = <<>>

\* Narrowing: the first instance matches a priority-2 record, the second a
\* priority-1 record, both pass; RoundRobin with the cursor at 0 returns the
\* second.
C16_Witness ==
    /\ call.called /\ call.threw = "" /\ call.algorithm = RoundRobin /\ call.index = 0
    /\ Len(call.healthChecks) = 2 /\ Len(call.dnsRecords) = 2
    /\ AllPassing(call.healthChecks[1]) /\ AllPassing(call.healthChecks[2])
    /\ DnsGet(call.dnsRecords, call.healthChecks[1].Address).priority = 2
    /\ DnsGet(call.dnsRecords, call.healthChecks[2].Address).priority = 1
    /\ call.result.selected.ip = call.healthChecks[2].Address

\* Widening: the only matched instance is at a priority-2 record, the
\* priority-1 record has no instance; the instance is selected.
C16_WitnessWidened ==
    /\ call.called /\ call.threw = "" /\ call.path = "health"
    /\ Len(call.healthChecks) = 1 /\ Len(call.dnsRecords) = 2
    /\ DnsGet(call.dnsRecords, call.healthChecks[1].Address).priority = 2
    /\ MatchedInTopTier(call) = <<>>
    /\ call.result.selected.ip = call.healthChecks[1].Address


\* C17: priority filtering never blocks a selection outright: under
\* RoundRobin or LeastConnection, if the matched set M contains an instance
\* whose every check is passing, selectOptimalService returns a non-null
\* selection, whatever the SRV priorities of the matched instances are
\* (stated for calls in which no provider and no store operation fails).
C17_PriorityNeverBlocks ==
    (ReachedAlgorithm(call) /\ call.failure = "none"
        /\ call.algorithm \in {RoundRobin, LeastConnection}
        /\ HealthyServices(MatchedHealthChecks(call.healthChecks, call.dnsRecords)) # <<>>)
    => call.result.selected # null


\* The registry holds one instance and its only check is critical; RoundRobin
\* is asked and nothing fails during the call.
CriticalAlone ==
    /\ call.called /\ call.algorithm = RoundRobin /\ call.failure = "none"
    /\ Len(consul) = 1 /\ Len(consul[1].Checks) = 1
    /\ consul[1].Checks[1].Status = "critical"

\* C18 as stated: a registry containing a single instance whose only check is
\* critical yields {selected: null} under RoundRobin, for every content of
\* the SRV population returned by the DNS provider.
C18_CriticalAloneAnyDns ==
    CriticalAlone => call.result.selected = null

\* C18, amended: the single critical instance yields {selected: null, services:
\* []} under RoundRobin when the SRV population is empty or holds a record at
\* the instance's address; when the SRV population is not empty and holds no
\* record at that address, the no-match fallback returns a record of the top
\* tier P of D.
C18_CriticalAloneMatchedOrNoDns ==
    /\ (CriticalAlone /\ (srv = <<>> \/ DnsHas(srv, consul[1].Address)))
       => call.result = NullResult
    /\ (CriticalAlone /\ srv # <<>> /\ ~DnsHas(srv, consul[1].Address))
       => (call.path = "srv" /\ SelectedFromTopTier(call))

\* The critical instance has an SRV record at its address: the selection
\* algorithm finds no healthy candidate and the call returns the null result.
C18_Witness ==
    /\ CriticalAlone
    /\ DnsHas(srv, consul[1].Address)
    /\ call.threw = "No healthy services available"
    /\ call.result = NullResult

\* The only SRV record is at another address: it is returned.
C18_WitnessFallback ==
    /\ CriticalAlone
    /\ Len(srv) = 1 /\ srv[1].ip # consul[1].Address
    /\ call.result.selected = ServiceInfo(srv[1].ip, srv[1].port)


----------------------------------------------------------------------------
(* SpecFirst: the metrics methods of the first ConsulResolver of             *)
(* src/unnamed/part_004, which has no cacheEnabled switch: the connection    *)
(* counters live under `${cachePrefix}:connections:${id}`, the selection     *)
(* record under the bare service id.                                         *)

\* The key each method of this class reads and writes.
First_KeyOf(op, id) ==
    IF op \in {"incrementConnections", "decrementConnections"}
    THEN getConnectionKey(id) ELSE BareKey(id)

First_Init ==
    /\ redis = EmptyStore
    /\ cacheEnabled = TRUE
    /\ now = 1
    /\ SeqIdle /\ AlgIdle /\ TtlIdle /\ RaceIdle /\ ResIdle

\* incrementConnections, decrementConnections, updateSelectionMetrics: GET,
\* compute, SET; any failure is caught and logged.
First_WriteCall(op, id) ==
    \E failure \in {"none", "get", "set"} :
        LET key == First_KeyOf(op, id)
            existingMetrics == redis[key]
        IN /\ op = "incrementConnections" => StoredConnections(redis, id) < MaxCount
           /\ redis' = IF failure = "none"
                       THEN RedisSet(redis, key,
                                JSONstringify(Computed(op, existingMetrics, DEFAULT_METRICS, now)))
                       ELSE redis
           /\ Record(Completed(op, id, <<>>, failure, FALSE, null))
           /\ UNCHANGED <<cacheEnabled, now, algVars, ttlVars, raceVars, resVars>>

\* getSelectionMetrics: redis.get(serviceId); null on a miss and on an error.
First_getSelectionMetrics(id) ==
    \E failure \in {"none", "get"} :
        LET reply == redis[First_KeyOf("getSelectionMetrics", id)]
            ret == IF failure = "get" THEN null ELSE SelectionMetricsOf(reply)
        IN /\ Record(Completed("getSelectionMetrics", id, <<>>, failure, FALSE, ret))
           /\ UNCHANGED <<storeVars, algVars, ttlVars, raceVars, resVars>>

\* refresh: KEYS prefix:*, then DEL of what it listed; a failure is logged.
First_refresh ==
    \E failure \in {"none", "keys", "del"} :
        LET keys == PrefixKeys(redis) IN
        /\ failure = "del" => keys # {}
        /\ redis' = IF failure = "none" THEN RedisDel(redis, keys) ELSE redis
        /\ Record(Completed("refresh", "", <<>>, failure, FALSE, null))
        /\ UNCHANGED <<cacheEnabled, now, algVars, ttlVars, raceVars, resVars>>

First_Next ==
    \/ \E op \in WriteOps, id \in MetricIds : First_WriteCall(op, id)
    \/ \E id \in MetricIds : First_getSelectionMetrics(id)
    \/ First_refresh

SpecFirst == First_Init /\ [][First_Next]_vars

----------------------------------------------------------------------------
(* Claims about refresh *)

\* refresh came back without having met a failure, the cache being enabled.
RefreshCompleted == last.called /\ last.op = "refresh" /\ last.failure = "none" /\ cacheEnabled

\* C19, for the first ConsulResolver of src/unnamed/part_004 (SpecFirst):
\* after refresh completes, getSelectionMetrics returns null for every id,
\* i.e. what a selection recorded, lastSelectedTime included, is gone.
C19_FirstRefreshClearsSelections ==
    RefreshCompleted
    => \A id \in MetricIds :
          SelectionMetricsOf(redis[First_KeyOf("getSelectionMetrics", id)]) = null

\* C19, for MetricsManager and the later ConsulResolver (SpecMetrics): after
\* refresh completes with the cache enabled no key under the prefix remains,
\* getSelectionMetrics gives null for every id, and the keys outside the
\* prefix hold what they held.
C19_RefreshClearsPrefix ==
    RefreshCompleted
    => /\ PrefixKeys(redis) = {}
       /\ \A id \in MetricIds : SelectionMetricsOf(redis[getConnectionKey(id)]) = null
       /\ \A k \in Keys : k.prefix # cachePrefix => redis[k] = last.before[k]

\* refresh removed a record that held a connection count and a selection time.
C19_PrefixWitness ==
    /\ RefreshCompleted
    /\ \E id \in MetricIds :
          /\ Truthy(last.before[getConnectionKey(id)])
          /\ JSONparse(last.before[getConnectionKey(id)]).activeConnections = 1
          /\ HasLastSelectedTime(JSONparse(last.before[getConnectionKey(id)]))
          /\ redis[getConnectionKey(id)] = Nil


----------------------------------------------------------------------------
(* SpecSelection: connections opened and selections recorded by            *)
(* MetricsManager while the clock runs; the record of "s2" already counts    *)
(* two connections                                                           *)

SelectionInit ==
    /\ redis = RedisSet(EmptyStore, getConnectionKey("s2"),
                        JSONstringify([DEFAULT_METRICS EXCEPT !.activeConnections = 2]))
    /\ cacheEnabled = TRUE
    /\ now = 1
    /\ SeqIdle /\ AlgIdle /\ TtlIdle /\ RaceIdle /\ ResIdle

SelectionNext ==
    \/ WriteCall("incrementConnections", "s1")
    \/ \E id \in MetricIds : WriteCall("updateSelectionMetrics", id)
    \/ Tick

SpecSelection == SelectionInit /\ [][SelectionNext]_vars

\* C20: updateSelectionMetrics(id) sets lastSelectedTime of id's record to
\* the current time and leaves every other field of that record (in
\* particular activeConnections) and every other key of the store unchanged;
\* on a missing record it writes the default metrics plus lastSelectedTime.
\* (Stated of a call that meets no failure and finds nothing or a JSON record
\* under the key, the cache being enabled.)
C20_SelectionSetsOnlyTime ==
    [][ (/\ now' = now
         /\ last'.called /\ last'.op = "updateSelectionMetrics" /\ last'.failure = "none"
         /\ cacheEnabled
         /\ ~Truthy(redis[getConnectionKey(last'.id)])
                \/ JSONparses(redis[getConnectionKey(last'.id)]))
        => LET key == getConnectionKey(last'.id)
               base == IF Truthy(redis[key]) THEN JSONparse(redis[key])
                       ELSE DEFAULT_METRICS
           IN /\ Truthy(redis'[key]) /\ JSONparses(redis'[key])
              /\ JSONparse(redis'[key]).lastSelectedTime = now
              /\ DOMAIN JSONparse(redis'[key]) = DOMAIN base \cup {"lastSelectedTime"}
              /\ \A f \in DOMAIN base \ {"lastSelectedTime"} :
                    JSONparse(redis'[key])[f] = base[f]
              /\ \A k \in Keys \ {key} : redis'[k] = redis[k]
      ]_vars

\* The record of "s2", which counts 2 connections and was selected at tick 1,
\* is selected again later: the count is kept, the time is the new one, and
\* the record of "s1" is as it was.
C20_Witness ==
    /\ last.called /\ last.op = "updateSelectionMetrics" /\ last.failure = "none"
    /\ last.id = "s2" /\ now > 1
    /\ JSONparse(last.before[getConnectionKey("s2")]).activeConnections = 2
    /\ HasLastSelectedTime(JSONparse(last.before[getConnectionKey("s2")]))
    /\ JSONparse(last.before[getConnectionKey("s2")]).lastSelectedTime = 1
    /\ JSONparse(redis[getConnectionKey("s2")]).activeConnections = 2
    /\ JSONparse(redis[getConnectionKey("s2")]).lastSelectedTime = now
    /\ Truthy(redis[getConnectionKey("s1")])
    /\ redis[getConnectionKey("s1")] = last.before[getConnectionKey("s1")]

\* Nothing was stored for the id: the defaults plus lastSelectedTime are written.
C20_WitnessMissing ==
    /\ last.called /\ last.op = "updateSelectionMetrics" /\ last.failure = "none"
    /\ last.before[getConnectionKey(last.id)] = Nil
    /\ redis[getConnectionKey(last.id)]
         = JSONstringify(WithLastSelectedTime(DEFAULT_METRICS, now))


----------------------------------------------------------------------------
(* SpecRecorded: selectOptimalService with the cache enabled, the clock      *)
(* advancing between calls                                                   *)

RecordedFailures == {"none", "healthProvider", "metricsSet"}

\* Time passes between two calls.
Elapse ==
    /\ call = NotCalled
    /\ now < MaxCallTime
    /\ now' = now + 1
    /\ UNCHANGED <<redis, cacheEnabled, seqVars, algVars, ttlVars, raceVars, resVars>>

RecordedInit ==
    /\ consul \in Registries
    /\ srv \in SrvAnswers
    /\ cacheEnabled = TRUE
    /\ redis = EmptyStore
    /\ now = 1
    /\ currentIndex = 0
    /\ call = NotCalled
    /\ AlgIdle /\ TtlIdle /\ SeqIdle /\ RaceIdle

RecordedNext ==
    \/ \E service \in ServiceNames, algorithm \in SelectionAlgorithm,
          failure \in RecordedFailures :
           selectOptimalService(service, algorithm, failure)
    \/ Return
    \/ Elapse

SpecRecorded == RecordedInit /\ [][RecordedNext]_vars

\* The key the winner of a call is recorded under: the Service.ID of the
\* selected instance on the health path, the name of the selected SRV record
\* on the SRV-only path.
WinnerKeys(c) ==
    IF c.path = "health"
    THEN { c.healthChecks[i].ID : i \in { j \in 1..Len(c.healthChecks) :
               c.healthChecks[j].Address = c.result.selected.ip } }
    ELSE { c.dnsRecords[i].name : i \in { j \in 1..Len(c.dnsRecords) :
               c.dnsRecords[j].ip = c.result.selected.ip } }

\* C21: every selectOptimalService call that returns a non-null selection
\* has, with the cache enabled and the store available, recorded the winner's
\* selection timestamp before returning: getSelectionMetrics of the winner's
\* key gives a record whose lastSelectedTime is the time of that call.
C21_WinnerTimestampRecorded ==
    (call.called /\ Completed_Result /\ call.result.selected # null
        /\ cacheEnabled /\ ~Fails(call.failure, "metricsGet")
        /\ ~Fails(call.failure, "metricsSet"))
    => /\ Cardinality(WinnerKeys(call)) = 1
       /\ \A id \in WinnerKeys(call) :
             /\ SelectionMetricsOf(redis[getConnectionKey(id)]) # null
             /\ HasLastSelectedTime(SelectionMetricsOf(redis[getConnectionKey(id)]))
             /\ SelectionMetricsOf(redis[getConnectionKey(id)]).lastSelectedTime = now

\* An instance wins at a tick later than the first: its record holds that
\* time.
C21_Witness ==
    /\ call.called /\ call.path = "health" /\ call.failure = "none" /\ now > 1
    /\ call.result.selected # null
    /\ \E id \in WinnerKeys(call) :
          SelectionMetricsOf(redis[getConnectionKey(id)]).lastSelectedTime = now

\* On the SRV-only path the record is kept under the SRV target name.
C21_WitnessSrv ==
    /\ call.called /\ call.path = "srv" /\ now > 1
    /\ call.result.selected # null /\ call.failure = "healthProvider"
    /\ \E id \in WinnerKeys(call) :
          /\ id \in { SrvTargets[i] : i \in AddrIndices }
          /\ SelectionMetricsOf(redis[getConnectionKey(id)]).lastSelectedTime = now


----------------------------------------------------------------------------
(* SpecExpiry: the writes of MetricsManager with the time-to-live of their   *)
(* SET ... "EX", 24 * 60 * 60, the clock moving by about a day at a time     *)

\* 24 * 60 * 60 seconds, in ticks
DayTicks == (24 * 60 * 60 * 1000) \div TickMs

\* A SET that leaves the time-to-live of an existing key as it is.
ExpiryAfterSet_KeepTtl(exp, key, time) ==
    IF exp[key] # 0 THEN exp ELSE [exp EXCEPT ![key] = time + DayTicks]

\* SET key value "EX" 86400: the key expires 24 hours after this write.
ExpiryAfterSet(exp, key, time) == [exp EXCEPT ![key] = time + DayTicks]

\* The keys whose time-to-live has run out at `time`.
ExpiredKeys(exp, time) == { k \in Keys : exp[k] # 0 /\ exp[k] <= time }

ExpiryInit ==
    /\ redis = EmptyStore
    /\ cacheEnabled = TRUE
    /\ now = 1
    /\ expiry = [k \in Keys |-> 0]
    /\ SeqIdle /\ AlgIdle /\ RaceIdle /\ ResIdle

\* incrementConnections, decrementConnections, updateSelectionMetrics: GET,
\* compute, SET with a 24-hour expiry; any failure is caught and logged.
ExpiringWrite(op, id) ==
    \E failure \in {"none", "get", "set"} :
        LET key == getConnectionKey(id)
            existingMetrics == redis[key]
        IN /\ op = "incrementConnections" => StoredConnections(redis, id) < MaxCount
           /\ redis' = IF failure = "none"
                       THEN RedisSet(redis, key,
                                JSONstringify(Computed(op, existingMetrics, DEFAULT_METRICS, now)))
                       ELSE redis
           /\ expiry' = IF failure = "none" THEN ExpiryAfterSet(expiry, key, now)
                        ELSE expiry
           /\ Record(Completed(op, id, <<>>, failure, FALSE, null))
           /\ UNCHANGED <<cacheEnabled, now, algVars, raceVars, resVars>>

\* getSelectionMetrics: a GET, which leaves the time-to-live alone.
ExpiringRead(id) ==
    /\ Record(Completed("getSelectionMetrics", id, <<>>, "none", FALSE,
                        SelectionMetricsOf(redis[getConnectionKey(id)])))
    /\ UNCHANGED <<storeVars, algVars, raceVars, resVars, ttlVars>>

\* A day, or a day less one tick, goes by; Redis drops the keys that expire.
Wait(d) ==
    /\ now + d <= 1 + MaxDays * DayTicks
    /\ now' = now + d
    /\ redis' = RedisDel(redis, ExpiredKeys(expiry, now + d))
    /\ expiry' = [k \in Keys |-> IF k \in ExpiredKeys(expiry, now + d) THEN 0 ELSE expiry[k]]
    /\ UNCHANGED <<cacheEnabled, seqVars, algVars, raceVars, resVars>>

ExpiryNext ==
    \/ \E op \in WriteOps : ExpiringWrite(op, "s1")
    \/ ExpiringRead("s1")
    \/ \E d \in {DayTicks - 1, DayTicks} : Wait(d)

SpecExpiry == ExpiryInit /\ [][ExpiryNext]_vars

\* C22: metrics records have a sliding 24-hour expiry: every write by
\* incrementConnections, decrementConnections or updateSelectionMetrics sets
\* the record's time-to-live to the full 24 hours; a stored record is always
\* less than 24 hours from its last write, so one that receives no write for
\* 24 hours is gone: the next read then returns null and the next increment
\* writes the defaults with activeConnections 1.
C22_SlidingExpiry ==
    /\ [][ (now' = now /\ last'.called /\ last'.op \in WriteOps
                /\ last'.failure = "none")
           => expiry'[getConnectionKey(last'.id)] = now + DayTicks ]_vars
    /\ [](\A k \in Keys :
             /\ redis[k] # Nil => (now < expiry[k] /\ expiry[k] <= now + DayTicks)
             /\ (expiry[k] # 0 /\ expiry[k] <= now) => redis[k] = Nil)
    /\ [][ (now' = now /\ last'.called /\ last'.failure = "none"
                /\ redis[getConnectionKey(last'.id)] = Nil)
           => /\ last'.op = "getSelectionMetrics" => last'.ret = null
              /\ last'.op = "incrementConnections"
                 => redis'[getConnectionKey(last'.id)]
                      = JSONstringify([DEFAULT_METRICS EXCEPT !.activeConnections = 1])
         ]_vars

\* A record written on the first day was written again before it expired
\* and is still there more than 24 hours after its first write.
C22_Witness ==
    /\ now > 1 + DayTicks
    /\ redis[getConnectionKey("s1")] # Nil
    /\ StoredConnections(redis, "s1") = 2

\* A connection was counted, a day went by without a write, and the next
\* increment started again from 1.
C22_WitnessGone ==
    /\ prev.called /\ prev.op = "incrementConnections" /\ prev.failure = "none"
    /\ last.called /\ last.op = "incrementConnections" /\ last.failure = "none"
    /\ last.before[getConnectionKey("s1")] = Nil
    /\ StoredConnections(redis, "s1") = 1


----------------------------------------------------------------------------
(* SpecResolverChurn: the ConsulResolver of src/resolver.ts asked for        *)
(* RoundRobin selections while instances register, deregister and change     *)
(* health between the calls                                                  *)

\* The registry answers differently from now on.
RegistryChanges ==
    /\ call = NotCalled
    /\ consul' \in Registries \ {consul}
    /\ UNCHANGED <<srv, currentIndex, call, storeVars, seqVars, algVars, raceVars, ttlVars>>

ResolverChurnNext ==
    \/ \E service \in ServiceNames :
           Resolver_selectOptimalService(service, RoundRobin, "none")
    \/ Return
    \/ RegistryChanges

SpecResolverChurn == ResolverInit /\ [][ResolverChurnNext]_vars

\* C23, for ConsulResolver.roundRobinSelection of src/resolver.ts: a
\* RoundRobin selectOptimalService call over N > 0 healthy matched instances
\* returns healthy[cursor mod N] and leaves the cursor at (cursor + 1) mod N,
\* whatever cursor an earlier call over a longer healthy list has left; in
\* particular it returns a non-null selection after the healthy set has
\* shrunk.
C23_ResolverCursorModulo ==
    LET healthy == HealthyServices(MatchedHealthChecks(call.healthChecks, call.dnsRecords))
    IN (call.called /\ call.algorithm = RoundRobin /\ call.failure = "none"
           /\ healthy # <<>>)
       => /\ call.result.selected # null
          /\ call.result.selected.ip = healthy[(call.index % Len(healthy)) + 1].Address
          /\ currentIndex = (call.index + 1) % Len(healthy)

\* C23, for roundRobinSelection of src/algorithms (SpecAlgorithms): the first
\* call, made with any cursor, returns healthy[cursor mod N] and the next
\* cursor (cursor + 1) mod N.
C23_CursorModulo ==
    (NHealthy > 0 /\ Len(rrTrace) > 0)
    => /\ rrTrace[1].threw = ""
       /\ rrTrace[1].service = HealthyServices(services)[(rrStart % NHealthy) + 1]
       /\ rrTrace[1].nextIndex = (rrStart + 1) % NHealthy

\* The cursor handed in is past the end of the healthy list.
C23_CursorModuloWitness ==
    /\ NHealthy = 2 /\ rrStart = 3 /\ Len(rrTrace) > 0
    /\ rrTrace[1].service = HealthyServices(services)[2]


----------------------------------------------------------------------------
(* SpecConcurrent: two selectOptimalService(RoundRobin) calls on one         *)
(* resolver, each split where it awaits: Promise.all of the two lookups,     *)
(* getServicesMetrics on the health path, updateSelectionMetrics. What runs  *)
(* between two awaits runs without interruption. The cache is disabled.      *)

\* A selection that works on the cursor as it stood when the call started.
CursorAtDispatch_AtStart(atStart, current) == atStart

\* The cursor a selection works on: this.currentIndex as roundRobinSelection
\* and selectFromSrvRecords read it, inside the synchronous step that also
\* advances it.
CursorAtDispatch(atStart, current) == current

ConcurrentInit ==
    /\ consul \in Registries
    /\ srv \in SrvAnswers
    /\ cacheEnabled = FALSE
    /\ redis = EmptyStore
    /\ now = 1
    /\ currentIndex = 0
    /\ call = NotCalled
    /\ pc = [p \in Procs |-> "idle"]
    /\ loc = [p \in Procs |-> NotCalled]
    /\ done = NoneDone
    /\ AlgIdle /\ TtlIdle /\ SeqIdle

\* The call is in flight: started and not yet returned.
InFlight(p) == pc[p] \in {"fetched", "metrics", "selected"}

\* The call starts and its Promise.all resolves.
Fetch(p, service) ==
    /\ pc[p] = "idle"
    /\ pc' = [pc EXCEPT ![p] = "fetched"]
    /\ loc' = [loc EXCEPT ![p] =
                  [called |-> TRUE, service |-> service, atStart |-> currentIndex,
                   healthChecks |-> getHealthChecks(service, redis, cacheEnabled, consul,
                                                    "none").value,
                   dnsRecords |-> resolveDNS(service, redis, cacheEnabled, srv,
                                             "none").value]]
    /\ UNCHANGED <<done, consul, srv, currentIndex, call, storeVars, seqVars, algVars, ttlVars>>

\* On the health path the call awaits getServicesMetrics before it selects.
AwaitMetrics(p) ==
    /\ pc[p] = "fetched"
    /\ MatchedHealthChecks(loc[p].healthChecks, loc[p].dnsRecords) # <<>>
    /\ pc' = [pc EXCEPT ![p] = "metrics"]
    /\ UNCHANGED <<loc, done, consul, srv, currentIndex, call, storeVars, seqVars, algVars, ttlVars>>

\* The selection: the cursor is read and advanced in this one step; the call
\* then awaits updateSelectionMetrics.
Select(p) ==
    /\ \/ pc[p] = "metrics"
       \/ /\ pc[p] = "fetched"
          /\ MatchedHealthChecks(loc[p].healthChecks, loc[p].dnsRecords) = <<>>
    /\ \E outcome \in {Outcome(loc[p].service, RoundRobin, "none", 0, redis,
                               CursorAtDispatch(loc[p].atStart, currentIndex),
                               cacheEnabled, loc[p].healthChecks,
                               loc[p].dnsRecords, now)} :
          /\ currentIndex' = outcome.nextIndex
          /\ loc' = [loc EXCEPT ![p] =
                        [called |-> TRUE, proc |-> p,
                         healthChecks |-> loc[p].healthChecks,
                         dnsRecords |-> loc[p].dnsRecords,
                         index |-> CursorAtDispatch(loc[p].atStart, currentIndex),
                         concurrent |-> \E q \in Procs \ {p} : InFlight(q),
                         path |-> outcome.path, result |-> outcome.result]]
    /\ pc' = [pc EXCEPT ![p] = "selected"]
    /\ UNCHANGED <<done, consul, srv, call, storeVars, seqVars, algVars, ttlVars>>

\* The call returns; `done` keeps the calls in the order they returned.
ReturnCall(p) ==
    /\ pc[p] = "selected"
    /\ pc' = [pc EXCEPT ![p] = "returned"]
    /\ loc' = [loc EXCEPT ![p] = NotCalled]
    /\ done' = [n |-> done.n + 1, calls |-> Append(done.calls, loc[p])]
    /\ UNCHANGED <<consul, srv, currentIndex, call, storeVars, seqVars, algVars, ttlVars>>

ConcurrentNext ==
    \/ \E p \in Procs, service \in ServiceNames : Fetch(p, service)
    \/ \E p \in Procs : AwaitMetrics(p)
    \/ \E p \in Procs : Select(p)
    \/ \E p \in Procs : ReturnCall(p)

SpecConcurrent == ConcurrentInit /\ [][ConcurrentNext]_vars

\* Both calls have returned a selection made by the health path over the same
\* list of at least two healthy candidates, and each made its selection while
\* the other call was in flight.
TwoConcurrentSelections ==
    /\ done.n = 2
    /\ \A k \in 1..2 : done.calls[k].path = "health" /\ done.calls[k].concurrent
    /\ Len(HealthyServices(Candidates(done.calls[1]))) >= 2

\* C24 as stated, of two calls that overlap: concurrent RoundRobin calls race
\* on the cursor without atomicity, both read the same cursor value, both
\* return the same instance and the cursor advances by only one step.
C24_ConcurrentCallsShareCursor ==
    TwoConcurrentSelections
    => /\ done.calls[1].index = done.calls[2].index
       /\ done.calls[1].result.selected = done.calls[2].result.selected
       /\ currentIndex = (done.calls[1].index + 1)
                            % Len(HealthyServices(Candidates(done.calls[1])))

\* C24, amended: two selectOptimalService(RoundRobin) calls interleave only
\* at their awaits, and the cursor is read and advanced inside one
\* synchronous step; so two overlapping calls over the same list of N >= 2
\* healthy candidates never read the same cursor value: they return two
\* different instances and the cursor advances by two steps.
C24_CursorStepIsAtomic ==
    TwoConcurrentSelections
    => /\ {done.calls[1].index, done.calls[2].index} = {0, 1}
       /\ done.calls[1].result.selected # done.calls[2].result.selected
       /\ currentIndex = 2 % Len(HealthyServices(Candidates(done.calls[1])))

\* Both calls were suspended on getServicesMetrics together; the one that
\* selected second returned first.
C24_Witness ==
    /\ TwoConcurrentSelections
    /\ done.calls[1].index = 1
    /\ done.calls[2].index = 0
    /\ done.calls[1].result.selected.ip # done.calls[2].result.selected.ip


----------------------------------------------------------------------------
(* SpecTwoNames: one resolver asked for RoundRobin selections of two service *)
(* names, each with its own instances; the DNS zone agrees with the          *)
(* registry. The cache is disabled.                                          *)

TwoNames == {"web", "api"}

\* One SRV record, of priority 1 and weight 1, at the address of each instance.
SrvOf(registry) ==
    [k \in 1..Len(registry) |->
        SrvRecord(CHOOSE i \in AddrIndices : Addresses[i] = registry[k].Address, 1, 1)]

TwoNamesInit ==
    /\ consul \in [TwoNames -> Registries]
    /\ srv = [service \in TwoNames |-> SrvOf(consul[service])]
    /\ cacheEnabled = FALSE
    /\ redis = EmptyStore
    /\ now = 1
    /\ currentIndex = 0
    /\ call = NotCalled
    /\ pc = <<>> /\ loc = <<>>
    /\ done = NoneDone
    /\ AlgIdle /\ TtlIdle /\ SeqIdle

\* selectOptimalService(service, RoundRobin); `done` keeps the calls in order.
SelectByName(service) ==
    /\ done.n < MaxInst + 1
    /\ \E outcome \in {Outcome(service, RoundRobin, "none", 0, redis, currentIndex,
                               cacheEnabled, consul[service], srv[service], now)} :
          /\ currentIndex' = outcome.nextIndex
          /\ done' = [n |-> done.n + 1,
                      calls |-> Append(done.calls,
                                       [service |-> service, index |-> currentIndex,
                                        result |-> outcome.result])]
    /\ UNCHANGED <<consul, srv, call, pc, loc, storeVars, seqVars, algVars, ttlVars>>

TwoNamesNext == \E service \in TwoNames : SelectByName(service)

SpecTwoNames == TwoNamesInit /\ [][TwoNamesNext]_vars

\* The calls made for a service name, in order.
CallsFor(service) == SelectSeq(done.calls, LAMBDA c : c.service = service)

\* The first N calls for the name, N being the number of its healthy
\* instances, returned N different instances.
RotationOf(service) ==
    LET n == Len(HealthyServices(consul[service])) IN
    (n > 0 /\ Len(CallsFor(service)) >= n)
    => Cardinality({ CallsFor(service)[k].result.selected : k \in 1..n }) = n

\* C25: on one resolver the round-robin rotation of a service name (N
\* successive RoundRobin calls over its unchanged list of N healthy instances
\* return each instance exactly once) is preserved when RoundRobin calls for
\* a different service name are made in between.
C25_RotationPerServiceName ==
    \A service \in TwoNames : RotationOf(service)

\* Without calls for another name in between, the rotation holds.
C25_RotationAlone ==
    \A service \in TwoNames :
        (\A k \in 1..Len(done.calls) : done.calls[k].service = service)
        => RotationOf(service)


----------------------------------------------------------------------------
(* SpecWeighted: the weighted selectors of src/algorithms/index.ts and      *)
(* DNSManager.selectFromSrvRecords, applied to inputs drawn in Init.        *)
(* services holds the ranked candidates, srv the SRV records, rrStart the   *)
(* cursor, lcIn the arguments of the last call and lcOut what it returned.  *)

\* The scores and the SRV weights the inputs are drawn from.
Scores == {0, 1, 2}
Weights == {0, 1, 2}

\* A ranked candidate: { score, id, service }.
Ranked(i, score) ==
    [score |-> score, id |-> ServiceIds[i], service |-> Candidate(i)]

RankedLists(n) ==
    { [k \in 1..n |-> Ranked(k, f[k])] : f \in [1..n -> Scores] }

SrvLists(n) ==
    { [k \in 1..n |-> SrvRecord(k, 1, f[k])] : f \in [1..n -> Weights] }

\* rankedServices.reduce((sum, service) => sum + service.score, 0)
RECURSIVE SumOfScores(_, _)
SumOfScores(rankedServices, k) ==
    IF k = 0 THEN 0
    ELSE SumOfScores(rankedServices, k - 1) + rankedServices[k].score

\* The for loop of weightedRandomSelection from its k-th element on, the
\* remainder counted in DrawSteps-ths: random -= service.score and the first
\* element that brings it to 0 or below is returned; 0 when the loop ends.
\* A walk that stops only once the remainder is below 0.
RECURSIVE WalkScores_Strict(_, _, _)
WalkScores_Strict(rankedServices, k, random) ==
    IF k > Len(rankedServices) THEN 0
    ELSE IF random - rankedServices[k].score * DrawSteps < 0 THEN k
    ELSE WalkScores_Strict(rankedServices, k + 1,
                           random - rankedServices[k].score * DrawSteps)

RECURSIVE WalkScores(_, _, _)
WalkScores(rankedServices, k, random) ==
    IF k > Len(rankedServices) THEN 0
    ELSE IF random - rankedServices[k].score * DrawSteps <= 0 THEN k
    ELSE WalkScores(rankedServices, k + 1,
                    random - rankedServices[k].score * DrawSteps)

\* A weightedRandomSelection that answers an empty list with nothing
\* instead of raising.
Algorithms_weightedRandomSelection_Lenient(rankedServices, draw) ==
    LET k == WalkScores(rankedServices, 1,
                        draw * SumOfScores(rankedServices, Len(rankedServices)))
    IN IF Len(rankedServices) = 0 THEN [threw |-> "", id |-> "", service |-> null]
       ELSE IF k = 0
       THEN [threw |-> "", id |-> rankedServices[1].id,
             service |-> rankedServices[1].service]
       ELSE [threw |-> "", id |-> rankedServices[k].id,
             service |-> rankedServices[k].service]

\* weightedRandomSelection; Math.random() is draw / DrawSteps.
Algorithms_weightedRandomSelection(rankedServices, draw) ==
    LET n == Len(rankedServices)
        totalScore == SumOfScores(rankedServices, n)
        Picked(k) == [threw |-> "", id |-> rankedServices[k].id,
                      service |-> rankedServices[k].service]
        k == WalkScores(rankedServices, 1, draw * totalScore)
    IN IF n = 0 THEN Threw("No services available for selection")
       ELSE IF totalScore <= 0 THEN Picked(1)
       ELSE IF k # 0 THEN Picked(k)
       ELSE Picked(1)

WeightedInit ==
    /\ \/ services \in UNION { RankedLists(n) : n \in 0..MaxInst } /\ srv = <<>>
       \/ services = <<>> /\ srv \in UNION { SrvLists(n) : n \in 0..MaxInst }
    /\ rrStart \in 0..MaxCursor
    /\ rrIndex = 0
    /\ rrTrace = <<>>
    /\ lcIn = NotCalled
    /\ lcOut = NotCalled
    /\ redis = EmptyStore /\ cacheEnabled = TRUE /\ now = 1
    /\ consul = <<>> /\ currentIndex = 0 /\ call = NotCalled
    /\ SeqIdle /\ RaceIdle /\ TtlIdle

WeightedRandomCall(draw) ==
    /\ lcIn' = [called |-> TRUE, fn |-> "weightedRandomSelection", draw |-> draw]
    /\ lcOut' = [called |-> TRUE,
                 result |-> Algorithms_weightedRandomSelection(services, draw)]
    /\ UNCHANGED <<services, rrStart, rrIndex, rrTrace>>
    /\ UNCHANGED <<storeVars, seqVars, raceVars, resVars, ttlVars>>


\* roundRobinSrvSelection(records, currentIndex)
roundRobinSrvSelection(records, index) ==
    IF Len(records) = 0 THEN null
    ELSE [selected |-> records[(index % Len(records)) + 1],
          nextIndex |-> (index + 1) % Len(records)]

\* A sum in which a record of weight 0 counts for nothing.
RECURSIVE TotalWeight_ZeroIsZero(_, _)
TotalWeight_ZeroIsZero(records, k) ==
    IF k = 0 THEN 0
    ELSE TotalWeight_ZeroIsZero(records, k - 1) + records[k].weight

\* records.reduce((sum, record) => sum + (record.weight || 1), 0)
RECURSIVE TotalWeight(_, _)
TotalWeight(records, k) ==
    IF k = 0 THEN 0
    ELSE TotalWeight(records, k - 1) + OrElse(records[k].weight, 1)

\* The for loop of weightedSrvRecordSelection from its k-th record on:
\* random -= record.weight || 1 and the first record that brings it to 0 or
\* below is returned; 0 when the loop ends.
RECURSIVE WalkWeights(_, _, _)
WalkWeights(records, k, random) ==
    IF k > Len(records) THEN 0
    ELSE IF random - OrElse(records[k].weight, 1) * DrawSteps <= 0 THEN k
    ELSE WalkWeights(records, k + 1,
                     random - OrElse(records[k].weight, 1) * DrawSteps)

\* A weightedSrvRecordSelection without the zero-weight fallback: the roulette
\* wheel is spun whatever the weights are.
weightedSrvRecordSelection_NoFallback(records, index, draw) ==
    LET k == WalkWeights(records, 1, draw * TotalWeight(records, Len(records)))
    IN IF Len(records) = 0 THEN null
       ELSE IF k # 0 THEN [selected |-> records[k], nextIndex |-> index]
       ELSE [selected |-> records[1], nextIndex |-> index]

\* weightedSrvRecordSelection(records, currentIndex); Math.random() is
\* draw / DrawSteps.
weightedSrvRecordSelection(records, index, draw) ==
    LET n == Len(records)
        hasNonZeroWeights == \E k \in 1..n : OrElse(records[k].weight, 0) > 0
        totalWeight == TotalWeight(records, n)
        k == WalkWeights(records, 1, draw * totalWeight)
    IN IF n = 0 THEN null
       ELSE IF ~hasNonZeroWeights THEN roundRobinSrvSelection(records, index)
       ELSE IF k # 0 THEN [selected |-> records[k], nextIndex |-> index]
       ELSE [selected |-> records[1], nextIndex |-> index]

\* DNSManager.selectFromSrvRecords(records, algorithm, currentIndex)
DNSManager_selectFromSrvRecords(records, algorithm, index, draw) ==
    IF Len(records) = 0 THEN [selected |-> null, nextIndex |-> index]
    ELSE IF algorithm = RoundRobin THEN roundRobinSrvSelection(records, index)
    ELSE IF algorithm = WeightedRoundRobin
    THEN weightedSrvRecordSelection(records, index, draw)
    ELSE IF algorithm = LeastConnection
    THEN roundRobinSrvSelection(records, index)
    ELSE [selected |-> records[1], nextIndex |-> index]

RoundRobinSrvCall ==
    /\ lcIn' = [called |-> TRUE, fn |-> "roundRobinSrvSelection", draw |-> 0]
    /\ lcOut' = [called |-> TRUE, result |-> roundRobinSrvSelection(srv, rrStart)]
    /\ UNCHANGED <<services, rrStart, rrIndex, rrTrace>>
    /\ UNCHANGED <<storeVars, seqVars, raceVars, resVars, ttlVars>>

WeightedSrvCall(draw) ==
    /\ lcIn' = [called |-> TRUE, fn |-> "weightedSrvRecordSelection", draw |-> draw]
    /\ lcOut' = [called |-> TRUE,
                 result |-> weightedSrvRecordSelection(srv, rrStart, draw)]
    /\ UNCHANGED <<services, rrStart, rrIndex, rrTrace>>
    /\ UNCHANGED <<storeVars, seqVars, raceVars, resVars, ttlVars>>

\* The algorithms a caller can pass: the three of the enum and a value
\* outside it.
PassedAlgorithms == SelectionAlgorithm \cup {"other"}

SelectFromSrvCall(algorithm, draw) ==
    /\ lcIn' = [called |-> TRUE, fn |-> "selectFromSrvRecords", draw |-> draw,
                algorithm |-> algorithm]
    /\ lcOut' = [called |-> TRUE,
                 result |-> DNSManager_selectFromSrvRecords(srv, algorithm, rrStart, draw)]
    /\ UNCHANGED <<services, rrStart, rrIndex, rrTrace>>
    /\ UNCHANGED <<storeVars, seqVars, raceVars, resVars, ttlVars>>

WeightedNext ==
    \/ \E draw \in 0..(DrawSteps - 1) : WeightedRandomCall(draw)
    \/ RoundRobinSrvCall
    \/ \E draw \in 0..(DrawSteps - 1) : WeightedSrvCall(draw)
    \/ \E algorithm \in PassedAlgorithms, draw \in 0..(DrawSteps - 1) :
          SelectFromSrvCall(algorithm, draw)

SpecWeighted == WeightedInit /\ [][WeightedNext]_vars

Called(fn) == lcIn.called /\ lcIn.fn = fn

\* C26: weightedRandomSelection raises 'No services available for selection'
\* on an empty list, and when the scores sum to 0 or less it returns the first
\* candidate whatever the random draw is.
C26_EmptyRaisesZeroTotalFirst ==
    Called("weightedRandomSelection") =>
        /\ services = <<>> =>
              lcOut.result = Threw("No services available for selection")
        /\ (services # <<>> /\ SumOfScores(services, Len(services)) <= 0) =>
              /\ lcOut.result.threw = ""
              /\ lcOut.result.id = services[1].id
              /\ lcOut.result.service = services[1].service

C26_Witness ==
    /\ Called("weightedRandomSelection")
    /\ Len(services) >= 2
    /\ SumOfScores(services, Len(services)) = 0
    /\ lcIn.draw > 0
    /\ lcOut.result.id = services[1].id

C26_WitnessEmpty ==
    /\ Called("weightedRandomSelection")
    /\ services = <<>>
    /\ lcOut.result = Threw("No services available for selection")


\* The draw r = Math.random() * total reaches the cumulative score of the
\* first i candidates (both sides counted in DrawSteps-ths).
CumulativeReaches(i) ==
    lcIn.draw * SumOfScores(services, Len(services))
        <= SumOfScores(services, i) * DrawSteps

\* The position of the returned candidate in the list (ids are distinct).
PickedAt(i) ==
    /\ lcOut.result.threw = ""
    /\ lcOut.result.id = services[i].id
    /\ lcOut.result.service = services[i].service

\* C27: for a non-empty list of non-negative scores with total > 0 and a draw
\* r in [0, total), weightedRandomSelection returns the first candidate i whose
\* cumulative score s_1 + ... + s_i is >= r, so the draws that select a
\* candidate are those of an interval as long as its score, a candidate of
\* score 0 is selected only by r = 0 when it stands first, and the returned
\* candidate is a member of the list.
C27_FirstCumulativeAtLeastDraw ==
    (/\ Called("weightedRandomSelection")
     /\ services # <<>>
     /\ SumOfScores(services, Len(services)) > 0) =>
        /\ \E i \in 1..Len(services) : PickedAt(i)
        /\ \A i \in 1..Len(services) :
              PickedAt(i) <=>
                  /\ CumulativeReaches(i)
                  /\ \A j \in 1..(i - 1) : ~CumulativeReaches(j)
        /\ \A i \in 1..Len(services) :
              (PickedAt(i) /\ services[i].score = 0) => (i = 1 /\ lcIn.draw = 0)

C27_Witness ==
    /\ Called("weightedRandomSelection")
    /\ Len(services) = 3
    /\ services[1].score = 1 /\ services[2].score = 0 /\ services[3].score = 2
    /\ lcIn.draw = 1
    /\ PickedAt(1)

C27_WitnessZeroFirst ==
    /\ Called("weightedRandomSelection")
    /\ Len(services) >= 2
    /\ services[1].score = 0
    /\ SumOfScores(services, Len(services)) > 0
    /\ lcIn.draw = 0
    /\ PickedAt(1)


AllWeightsZero(records) == \A k \in 1..Len(records) : records[k].weight = 0

\* C28: weightedSrvRecordSelection returns null for an empty record list, and
\* when every record's weight is 0 it returns records[cursor mod N] with
\* nextIndex = (cursor + 1) mod N, exactly what roundRobinSrvSelection returns
\* for the same arguments.
C28_ZeroWeightsDegradeToRoundRobin ==
    Called("weightedSrvRecordSelection") =>
        /\ srv = <<>> => lcOut.result = null
        /\ (srv # <<>> /\ AllWeightsZero(srv)) =>
              /\ lcOut.result.selected = srv[(rrStart % Len(srv)) + 1]
              /\ lcOut.result.nextIndex = (rrStart + 1) % Len(srv)
              /\ lcOut.result = roundRobinSrvSelection(srv, rrStart)

C28_Witness ==
    /\ Called("weightedSrvRecordSelection")
    /\ Len(srv) = 2
    /\ AllWeightsZero(srv)
    /\ rrStart = 3
    /\ lcIn.draw > 0
    /\ lcOut.result = [selected |-> srv[2], nextIndex |-> 0]

C28_WitnessEmpty ==
    /\ Called("weightedSrvRecordSelection")
    /\ srv = <<>>
    /\ lcOut.result = null


\* The weight a record has on the wheel.
WheelWeight(record) == IF record.weight = 0 THEN 1 ELSE record.weight

RECURSIVE WheelSum(_, _)
WheelSum(records, k) ==
    IF k = 0 THEN 0 ELSE WheelSum(records, k - 1) + WheelWeight(records[k])

\* The draw r = Math.random() * (sum of the wheel weights) reaches the
\* cumulative wheel weight of the first i records.
WheelReaches(i) ==
    lcIn.draw * WheelSum(srv, Len(srv)) <= WheelSum(srv, i) * DrawSteps

\* C29: when at least one SRV record has a positive weight,
\* weightedSrvRecordSelection spins a roulette wheel on which a record of
\* weight 0 counts as weight 1 (so it can be selected), the returned record is
\* one of the records passed in, and the returned nextIndex is the cursor
\* passed in.
C29_RouletteZeroCountsAsOne ==
    (/\ Called("weightedSrvRecordSelection")
     /\ \E k \in 1..Len(srv) : srv[k].weight > 0) =>
        /\ \E i \in 1..Len(srv) : lcOut.result.selected = srv[i]
        /\ \A i \in 1..Len(srv) :
              lcOut.result.selected = srv[i] <=>
                  /\ WheelReaches(i)
                  /\ \A j \in 1..(i - 1) : ~WheelReaches(j)
        /\ lcOut.result.nextIndex = rrStart

\* A record of weight 0 that is not the first is selected, and the cursor
\* passed in is returned although it is not reduced modulo N.
C29_Witness ==
    /\ Called("weightedSrvRecordSelection")
    /\ Len(srv) = 2
    /\ srv[1].weight = 1 /\ srv[2].weight = 0
    /\ rrStart = 3
    /\ lcOut.result = [selected |-> srv[2], nextIndex |-> 3]


----------------------------------------------------------------------------
(* SpecSrvOnly: selectOptimalService over a registry of at most one         *)
(* instance, on stores that already hold connection counts                  *)

\* The ids connection counts are stored under before the first call.
CountedIds == {"s1", "n1", "n2"}

\* The store after incrementConnections ran counts[id] times for each id.
CountedStores ==
    { [k \in Keys |->
          IF \E id \in CountedIds : k = getConnectionKey(id) /\ counts[id] > 0
          THEN JSONstringify([DEFAULT_METRICS EXCEPT
                   !.activeConnections =
                       counts[CHOOSE id \in CountedIds : k = getConnectionKey(id)]])
          ELSE Nil]
      : counts \in [CountedIds -> 0..MaxConn] }

\* The store with every stored activeConnections set to n.
WithConnections(store, n) ==
    [k \in Keys |->
        IF k.space = "connections" /\ Truthy(store[k]) /\ JSONparses(store[k])
        THEN JSONstringify([JSONparse(store[k]) EXCEPT !.activeConnections = n])
        ELSE store[k]]

SrvOnlyInit ==
    /\ consul \in { registry \in Registries : Len(registry) <= 1 }
    /\ srv \in SrvAnswers \ {<<>>}
    /\ cacheEnabled = TRUE
    /\ redis \in CountedStores
    /\ now = 1
    /\ currentIndex \in 0..(Cardinality(AddrIndices) - 1)
    /\ call = NotCalled
    /\ AlgIdle /\ TtlIdle /\ SeqIdle /\ RaceIdle

SrvOnlyNext ==
    \/ \E service \in ServiceNames, algorithm \in {RoundRobin, LeastConnection} :
           selectOptimalService(service, algorithm, "none")
    \/ Return

SpecSrvOnly == SrvOnlyInit /\ [][SrvOnlyNext]_vars

\* What the call that starts in this step would have left had it been made
\* with the given algorithm over the given store.
SameCallWith(algorithm, store) ==
    Outcome(call'.service, algorithm, call'.failure, call'.draw, store,
            currentIndex, cacheEnabled, consul, srv, now)

\* C30: on the SRV-only path LeastConnection is indistinguishable from
\* RoundRobin: for the same records and cursor selectFromSrvRecords returns
\* the same record and the same next cursor for both algorithms, and the
\* connection counts the store holds have no influence on the choice.
C30_LeastConnectionIsRoundRobinOnSrv ==
    [][(/\ ~call.called /\ call'.called
        /\ call'.path = "srv"
        /\ call'.algorithm = LeastConnection) =>
           /\ call'.result = SameCallWith(RoundRobin, redis).result
           /\ currentIndex' = SameCallWith(RoundRobin, redis).nextIndex
           /\ redis' = SameCallWith(RoundRobin, redis).store
           /\ \A n \in 0..MaxConn :
                 /\ call'.result
                        = SameCallWith(LeastConnection, WithConnections(redis, n)).result
                 /\ currentIndex'
                        = SameCallWith(LeastConnection, WithConnections(redis, n)).nextIndex
      ]_vars

\* A LeastConnection call over two SRV records of one tier returned the record
\* at the cursor although the other record's target holds fewer connections.
C30_Witness ==
    /\ call.called
    /\ call.path = "srv"
    /\ call.algorithm = LeastConnection
    /\ call.index = 0
    /\ Len(HighestPriorityRecords(sortByPriority(call.dnsRecords))) = 2
    /\ call.result.selected.ip = Addresses[1]
    /\ currentIndex = 1
    /\ StoredConnections(redis, "n1") = MaxConn
    /\ StoredConnections(redis, "n2") = 0

\* C30 in DNSManager.selectFromSrvRecords: LeastConnection returns what
\* RoundRobin returns for the same records and cursor.
C30_DnsManagerLeastConnectionIsRoundRobin ==
    (Called("selectFromSrvRecords") /\ lcIn.algorithm = LeastConnection) =>
        /\ lcOut.result = DNSManager_selectFromSrvRecords(srv, RoundRobin, rrStart, lcIn.draw)
        /\ srv # <<>> =>
              /\ lcOut.result.selected = srv[(rrStart % Len(srv)) + 1]
              /\ lcOut.result.nextIndex = (rrStart + 1) % Len(srv)

C30_DnsManagerWitness ==
    /\ Called("selectFromSrvRecords")
    /\ lcIn.algorithm = LeastConnection
    /\ Len(srv) = 3
    /\ rrStart = 4
    /\ lcOut.result = [selected |-> srv[2], nextIndex |-> 2]


----------------------------------------------------------------------------
(* SpecRanking: rankServices of src/scoring applied to instances and        *)
(* metrics maps drawn in Init. services holds the instances, lcIn the       *)
(* metrics map and lcOut what the call returned.                            *)

\* A metrics map over some of the ids: the defaults, or the defaults with
\* connections open.
RankingMetricsMaps(ids) ==
    UNION { [S -> { DEFAULT_METRICS,
                    [DEFAULT_METRICS EXCEPT !.activeConnections = 100 * MaxConn] }]
            : S \in SUBSET ids }

\* The first instance without an entry in the metrics map, 0 when there is none.
FirstWithoutMetrics(list, metrics) ==
    IF \E i \in 1..Len(list) : list[i].ID \notin DOMAIN metrics
    THEN CHOOSE i \in 1..Len(list) :
             /\ list[i].ID \notin DOMAIN metrics
             /\ \A j \in 1..(i - 1) : list[j].ID \in DOMAIN metrics
    ELSE 0

\* rankServices(services, metrics, weights = DEFAULT_WEIGHTS): map stops at the
\* first instance without metrics.
Scoring_rankServices(list, metrics, time) ==
    IF FirstWithoutMetrics(list, metrics) # 0
    THEN Threw("No metrics found for service "
                   \o list[FirstWithoutMetrics(list, metrics)].ID)
    ELSE [threw |-> "",
          ranked |-> SortRanked(
              [i \in 1..Len(list) |->
                  [score |-> TotalScore(list[i], metrics[list[i].ID], time),
                   id |-> list[i].ID, service |-> list[i]]],
              Len(list))]

RankingInit ==
    /\ services \in UNION { ServiceLists(n) : n \in 0..MaxInst }
    /\ lcIn \in { [called |-> FALSE, metrics |-> m] : m \in RankingMetricsMaps(IdsOf(services)) }
    /\ lcOut = NotCalled
    /\ rrStart = 0 /\ rrIndex = 0 /\ rrTrace = <<>>
    /\ redis = EmptyStore /\ cacheEnabled = TRUE /\ now = 1
    /\ SeqIdle /\ RaceIdle /\ ResIdle /\ TtlIdle

RankServicesCall ==
    /\ lcOut = NotCalled
    /\ lcOut' = [called |-> TRUE, result |-> Scoring_rankServices(services, lcIn.metrics, now)]
    /\ UNCHANGED <<services, rrStart, rrIndex, rrTrace, lcIn>>
    /\ UNCHANGED <<storeVars, seqVars, raceVars, resVars, ttlVars>>

\* The caller drops the ranking.
RankingDropped ==
    /\ lcOut # NotCalled
    /\ lcOut' = NotCalled
    /\ UNCHANGED <<services, rrStart, rrIndex, rrTrace, lcIn>>
    /\ UNCHANGED <<storeVars, seqVars, raceVars, resVars, ttlVars>>

RankingNext == RankServicesCall \/ RankingDropped

SpecRanking == RankingInit /\ [][RankingNext]_vars

\* The position in the input of the k-th ranked candidate (ids are distinct).
InputPosition(k) ==
    CHOOSE i \in 1..Len(services) : services[i].ID = lcOut.result.ranked[k].id

\* C31: rankServices returns a permutation of its input candidates ordered by
\* non-increasing composite score, candidates of equal score keeping their
\* input order; if an input instance has no entry in the metrics map it raises
\* 'No metrics found for service <id>' and returns no ranking.
C31_RankedPermutationDescendingStable ==
    lcOut.called =>
        IF IdsOf(services) \subseteq DOMAIN lcIn.metrics
        THEN LET ranked == lcOut.result.ranked IN
             /\ lcOut.result.threw = ""
             /\ Len(ranked) = Len(services)
             /\ \A i \in 1..Len(services) :
                   Cardinality({ k \in 1..Len(ranked) :
                                    /\ ranked[k].id = services[i].ID
                                    /\ ranked[k].service = services[i]
                                    /\ ranked[k].score
                                           = TotalScore(services[i],
                                                        lcIn.metrics[services[i].ID], now) })
                       = 1
             /\ \A k \in 1..(Len(ranked) - 1) :
                   /\ ranked[k].score >= ranked[k + 1].score
                   /\ ranked[k].score = ranked[k + 1].score
                          => InputPosition(k) < InputPosition(k + 1)
        ELSE /\ \E i \in 1..Len(services) :
                   /\ services[i].ID \notin DOMAIN lcIn.metrics
                   /\ lcOut.result.threw
                          = "No metrics found for service " \o services[i].ID
             /\ DOMAIN lcOut.result = {"threw"}

\* Three candidates: the last one scores highest and moves to the front, the
\* first two score the same and keep their order.
C31_Witness ==
    /\ lcOut.called
    /\ Len(services) = 3
    /\ lcOut.result.threw = ""
    /\ lcOut.result.ranked[1].id = services[3].ID
    /\ lcOut.result.ranked[2].id = services[1].ID
    /\ lcOut.result.ranked[3].id = services[2].ID
    /\ lcOut.result.ranked[1].score > lcOut.result.ranked[2].score
    /\ lcOut.result.ranked[2].score = lcOut.result.ranked[3].score

C31_WitnessMissing ==
    /\ lcOut.called
    /\ Len(services) = 2
    /\ DOMAIN lcIn.metrics = {services[1].ID}
    /\ lcOut.result = Threw("No metrics found for service s2")


----------------------------------------------------------------------------
(* SpecRankedCalls: the first selectOptimalService(WeightedRoundRobin) call *)
(* of a resolver over two registered instances, two SRV records and a store *)
(* that holds blobs and connection records, some of them unparseable, with  *)
(* every failure of the store and of the providers                          *)

\* Under each bare id nothing, a text that is not JSON or a metrics blob;
\* under each connections key nothing, a text that is not JSON or a record.
BlobStores ==
    { [k \in Keys |->
          IF k.name \notin MetricIds THEN Nil
          ELSE IF k = getConnectionKey(k.name) THEN c[k.name]
          ELSE IF k = BareKey(k.name) THEN b[k.name]
          ELSE Nil]
      : c \in [MetricIds -> {Nil, Garbage}]
                \cup { [id \in MetricIds |->
                           JSONstringify([DEFAULT_METRICS EXCEPT !.activeConnections = 2])] },
        b \in [MetricIds -> {Nil, Garbage, SeedBlob}] }

RankedCallsInit ==
    /\ consul \in { registry \in Registries : Len(registry) = 2 }
    /\ srv \in { answers \in SrvAnswers : Len(answers) = 2 }
    /\ cacheEnabled \in BOOLEAN
    /\ redis \in BlobStores
    /\ now = 1
    /\ currentIndex = 0
    /\ call = NotCalled
    /\ AlgIdle /\ TtlIdle /\ SeqIdle /\ RaceIdle

RankedCallsNext ==
    \E service \in ServiceNames, failure \in Failures :
        selectOptimalService(service, WeightedRoundRobin, failure)

SpecRankedCalls == RankedCallsInit /\ [][RankedCallsNext]_vars

\* C32: inside selectOptimalService the failure 'No metrics found for service'
\* cannot occur: on every WeightedRoundRobin call, whatever the store returns
\* or however it fails, every candidate passed to rankServices has an entry in
\* the metrics map fetched just before.
C32_RankingNeverMissesMetrics ==
    [][(/\ ~call.called /\ call'.called
        /\ call'.algorithm = WeightedRoundRobin) =>
           /\ call'.threw # "No metrics found for service"
           /\ ReachedAlgorithm(call') =>
                 \A outcome \in ExecOutcomes :
                     IdsOf(TargetOf(call'))
                         \subseteq DOMAIN ConsulResolver_getServicesMetrics(
                                              TargetOf(call'), redis, cacheEnabled,
                                              outcome, DEFAULT_METRICS)
      ]_vars

\* A WeightedRoundRobin call selected an instance although the blob stored
\* under the id of a candidate is not JSON.
C32_Witness ==
    /\ call.called
    /\ call.algorithm = WeightedRoundRobin
    /\ call.failure = "none"
    /\ cacheEnabled
    /\ ReachedAlgorithm(call)
    /\ \E i \in 1..Len(TargetOf(call)) : redis[BareKey(TargetOf(call)[i].ID)] = Garbage
    /\ call.result.selected # null

\* The same when the batch read is rejected.
C32_WitnessExecFails ==
    /\ call.called
    /\ call.algorithm = WeightedRoundRobin
    /\ call.failure = "exec"
    /\ ReachedAlgorithm(call)
    /\ call.result.selected # null


----------------------------------------------------------------------------
(* Claims about the DNS boost of the ranked scores *)

\* C33, for the class of src/resolver.ts: whenever selectOptimalService
\* divides by maxDNSWeight, maxDNSWeight is >= 1, including when every SRV
\* record has weight 0.
C33_ResolverMaxWeightAtLeastOne ==
    ReachedAlgorithm(call) =>
        Resolver_MaxWeight(call.dnsRecords, Len(call.dnsRecords)) >= 1

\* C33, for the later class of src/unnamed/part_004: the divisor is >= 1 and
\* the factor 1 + weight / maxDNSWeight of every matched instance lies in
\* [1, 2] (both sides multiplied by maxDNSWeight).
C33_MaxWeightAtLeastOne ==
    ReachedAlgorithm(call) =>
        /\ maxDNSWeight(call.dnsRecords) >= 1
        /\ \A i \in 1..Len(TargetOf(call)) :
              LET weight == DnsGet(call.dnsRecords, TargetOf(call)[i].Address).weight IN
              /\ maxDNSWeight(call.dnsRecords) <= maxDNSWeight(call.dnsRecords) + weight
              /\ maxDNSWeight(call.dnsRecords) + weight <= 2 * maxDNSWeight(call.dnsRecords)

C33_WitnessAllZero ==
    /\ ReachedAlgorithm(call)
    /\ call.algorithm = WeightedRoundRobin
    /\ \A i \in 1..Len(call.dnsRecords) : call.dnsRecords[i].weight = 0
    /\ maxDNSWeight(call.dnsRecords) = 1
    /\ call.result.selected # null


----------------------------------------------------------------------------
(* Claims about the result of selectOptimalService (Spec) *)

\* The matched set M of the last call.
MatchedOf(c) == MatchedHealthChecks(c.healthChecks, c.dnsRecords)

\* The port the SRV record at the address declares.
DnsPort(c, ip) == DnsGet(c.dnsRecords, ip).port

\* The matched instance at the selected address.
SelectedInstance(c) ==
    MatchedOf(c)[CHOOSE k \in 1..Len(MatchedOf(c)) :
                     MatchedOf(c)[k].Address = c.result.selected.ip]

C35_SelectedIsListed ==
    call.called =>
        /\ Completed_Result
        /\ call.result.selected = null => call.result.services = <<>>
        /\ call.result.selected # null =>
              /\ call.path \in {"health", "srv"}
              /\ \E k \in 1..Len(call.result.services) :
                    call.result.services[k] = call.result.selected

\* An SRV-only selection among two records, and a health-path selection of
\* the second of two matched instances.
C35_Witness ==
    /\ call.called /\ call.path = "srv"
    /\ call.algorithm = LeastConnection
    /\ Len(call.result.services) = 2
    /\ call.result.selected = call.result.services[1]

C35_WitnessHealth ==
    /\ call.called /\ call.path = "health"
    /\ call.algorithm = WeightedRoundRobin
    /\ Len(call.result.services) = 2
    /\ call.result.selected = call.result.services[2]

C35_WitnessNull ==
    /\ call.called /\ call.failure = "none" /\ call.threw # ""
    /\ call.result = NullResult


\* The metrics records a store holds: what is under the connection keys.
MetricsRecords(store) ==
    [id \in MetricIds \cup {"s3"} \cup SelectionIds |-> store[getConnectionKey(id)]]

\* The step is a selectOptimalService call that returns {selected: null}.
ReturnsNull == ~call.called /\ call'.called /\ call'.result.selected = null

\* C36, for the class of src/resolver.ts: a selectOptimalService call that
\* returns {selected: null} leaves the round-robin cursor as it was.
C36_ResolverNullCallKeepsCursor ==
    [][ReturnsNull => currentIndex' = currentIndex]_vars

\* C36: a selectOptimalService call that returns {selected: null} has no side
\* effect on selection state: the round-robin cursor and every stored metrics
\* record (activeConnections, lastSelectedTime) are the same after the call
\* as before it.
C36_NullCallHasNoEffect ==
    [][ReturnsNull =>
           /\ currentIndex' = currentIndex
           /\ MetricsRecords(redis') = MetricsRecords(redis)]_vars


\* A RoundRobin call over instances none of which is healthy returned null.
C36_Witness ==
    /\ call.called /\ call.algorithm = RoundRobin
    /\ call.threw = "No healthy services available"
    /\ call.result = NullResult
    /\ currentIndex = 1


----------------------------------------------------------------------------
(* SpecCaches: getHealthChecks and DNSManager.resolveDNS called one after   *)
(* another on a store whose cache entries are absent, unparseable or left   *)
(* by an earlier lookup; call holds the last lookup and what it returned.   *)

\* Where a lookup can meet a failure: the cache read rejects or does not
\* answer in time, the provider fails, the cache write rejects.
HealthLookupFailures == {"none", "healthCacheGet", "healthProvider", "healthCacheSet"}
DnsLookupFailures ==
    {"none", "dnsCacheGet", "dnsCacheTimeout", "dnsProvider", "dnsCacheSet"}

\* DNSManager.resolveDNS: the cache read races a 200 ms timer inside a try of
\* its own, and so does the cache write; `live` tells whether the DNS query
\* was sent.
DNSManager_resolveDNS(service, store, enabled, answers, failure) ==
    LET cacheKey == getDNSCacheKey(service)
        cachedData == store[cacheKey]
        hit == /\ enabled
               /\ failure \notin {"dnsCacheGet", "dnsCacheTimeout"}
               /\ Truthy(cachedData)
               /\ JSONparses(cachedData)
    IN IF hit
       THEN [threw |-> "", value |-> JSONparse(cachedData), store |-> store,
             live |-> FALSE]
       ELSE IF failure = "dnsProvider"
       THEN [threw |-> "", value |-> <<>>, store |-> store, live |-> TRUE]
       ELSE IF Len(answers) = 0
       THEN [threw |-> "", value |-> <<>>, store |-> store, live |-> TRUE]
       ELSE [threw |-> "", value |-> answers,
             store |-> IF enabled /\ failure # "dnsCacheSet"
                       THEN RedisSet(store, cacheKey, JSONstringifyArray(answers))
                       ELSE store,
             live |-> TRUE]

\* The cache entries before the first lookup: none, or text that is not JSON.
CacheStores ==
    { [k \in Keys |-> IF k.space \in {"health", "dns"} THEN v ELSE Nil]
      : v \in {Nil, Garbage} }

CachesInit ==
    /\ consul \in Registries
    /\ srv \in SrvAnswers
    /\ cacheEnabled \in BOOLEAN
    /\ redis \in CacheStores
    /\ now = 1
    /\ currentIndex = 0
    /\ call = NotCalled
    /\ AlgIdle /\ TtlIdle /\ SeqIdle /\ RaceIdle

\* What the lookup found under its cache key before it ran.
CacheState(key) ==
    IF ~cacheEnabled THEN "disabled"
    ELSE IF ~Truthy(redis[key]) THEN "miss"
    ELSE IF JSONparses(redis[key]) THEN "hit"
    ELSE "unparseable"

GetHealthChecksCall(service, failure) ==
    /\ call = NotCalled
    /\ failure \in {"healthCacheGet", "healthCacheSet"} => cacheEnabled
    /\ \E r \in {getHealthChecks(service, redis, cacheEnabled, consul, failure)} :
          /\ call' = [called |-> TRUE, fn |-> "getHealthChecks", failure |-> failure,
                      cache |-> CacheState(getHealthCacheKey(service)),
                      cached |-> redis[getHealthCacheKey(service)],
                      threw |-> r.threw, value |-> r.value]
          /\ redis' = r.store
    /\ UNCHANGED <<consul, srv, currentIndex, cacheEnabled, now>>
    /\ UNCHANGED <<algVars, ttlVars, seqVars, raceVars>>

ResolveDNSCall(service, failure) ==
    /\ call = NotCalled
    /\ failure \in {"dnsCacheGet", "dnsCacheTimeout", "dnsCacheSet"} => cacheEnabled
    /\ \E r \in {DNSManager_resolveDNS(service, redis, cacheEnabled, srv, failure)} :
          /\ call' = [called |-> TRUE, fn |-> "resolveDNS", failure |-> failure,
                      cache |-> CacheState(getDNSCacheKey(service)),
                      cached |-> redis[getDNSCacheKey(service)],
                      threw |-> r.threw, value |-> r.value, live |-> r.live]
          /\ redis' = r.store
    /\ UNCHANGED <<consul, srv, currentIndex, cacheEnabled, now>>
    /\ UNCHANGED <<algVars, ttlVars, seqVars, raceVars>>

\* The registry and the zone change between lookups.
ProvidersChange ==
    /\ call = NotCalled
    /\ consul' \in Registries /\ srv' \in SrvAnswers
    /\ Len(consul') + Len(srv') = Len(consul) + Len(srv) - 1
    /\ UNCHANGED <<currentIndex, call, storeVars, algVars, ttlVars, seqVars, raceVars>>

CachesNext ==
    \/ \E service \in ServiceNames, failure \in HealthLookupFailures :
           GetHealthChecksCall(service, failure)
    \/ \E service \in ServiceNames, failure \in DnsLookupFailures :
           ResolveDNSCall(service, failure)
    \/ ProvidersChange
    \/ Return

SpecCaches == CachesInit /\ [][CachesNext]_vars

\* The cache lookup of the last call missed or failed.
LookupMissedOrFailed ==
    \/ call.cache = "miss"
    \/ call.failure \in {"healthCacheGet", "dnsCacheGet", "dnsCacheTimeout"}

\* The list the live provider answers with, empty when the provider fails.
LiveAnswer ==
    IF call.failure \in {"healthProvider", "dnsProvider"} THEN <<>>
    ELSE IF call.fn = "getHealthChecks" THEN consul ELSE srv

\* C37: the read-through caches in front of the health and DNS providers
\* degrade to live: when the cache lookup misses, fails or does not answer
\* within its timeout, getHealthChecks and resolveDNS go on to a live provider
\* call and return its result (an empty list if the live call fails) rather
\* than rejecting; on a cache hit they return the cached response.
C37_CachesDegradeToLive ==
    (call.called /\ cacheEnabled) =>
        /\ LookupMissedOrFailed => (call.threw = "" /\ call.value = LiveAnswer)
        /\ (call.cache = "hit" /\ ~LookupMissedOrFailed) =>
              (call.threw = "" /\ call.value = JSONparse(call.cached))

\* C37 for DNSManager.resolveDNS alone; on a hit the DNS query is not sent.
C37_DnsManagerDegradesToLive ==
    (call.called /\ cacheEnabled /\ call.fn = "resolveDNS") =>
        /\ call.threw = ""
        /\ LookupMissedOrFailed => (call.live /\ call.value = LiveAnswer)
        /\ (call.cache = "hit" /\ ~LookupMissedOrFailed) =>
              (~call.live /\ call.value = JSONparse(call.cached))

\* The cache held an answer that the zone no longer gives and the cache read
\* timed out: the live answer was returned.
C37_DnsManagerWitness ==
    /\ call.called /\ call.fn = "resolveDNS"
    /\ call.failure = "dnsCacheTimeout"
    /\ call.cache = "hit"
    /\ JSONparse(call.cached) # srv
    /\ call.value = srv /\ srv # <<>>

C37_DnsManagerWitnessHit ==
    /\ call.called /\ call.fn = "resolveDNS"
    /\ call.failure = "none"
    /\ call.cache = "hit"
    /\ JSONparse(call.cached) # srv
    /\ call.value = JSONparse(call.cached)


----------------------------------------------------------------------------
(* Claims about store failures in the mutating operations *)

\* The last call was one of the operations and a store read or write failed
\* during it.
FailedIn(ops) == last.called /\ last.op \in ops /\ last.failure # "none"

\* C38: store failures never propagate out of the public mutating operations:
\* when a store read or write fails, incrementConnections,
\* decrementConnections and refresh complete without raising to the caller
\* and leave the store contents as they were before the call.
C38_StoreFailuresNeverPropagate ==
    FailedIn({"incrementConnections", "decrementConnections", "refresh"}) =>
        /\ ~last.threw
        /\ redis = last.before

\* C38 for incrementConnections and decrementConnections alone.
C38_WritesSwallowStoreFailures ==
    FailedIn({"incrementConnections", "decrementConnections"}) =>
        /\ ~last.threw
        /\ redis = last.before

\* A decrement whose SET failed left the record with its two connections.
C38_WritesWitness ==
    /\ FailedIn({"decrementConnections"})
    /\ last.failure = "set"
    /\ StoredConnections(redis, last.id) = 2

\* C38 for the refresh that logs the failure (SpecFirst).
C38_FirstRefreshSwallows ==
    FailedIn({"refresh"}) => (~last.threw /\ redis = last.before)

C38_FirstRefreshWitness ==
    /\ FailedIn({"refresh"})
    /\ last.failure = "del"
    /\ \E k \in Keys : redis[k] # Nil


-----------------------------------------------------------------------------
(* SpecResolverRanking: rankServices of src/src/resolver.ts on instances with
   zero, one or two checks; and the claims about the health score. *)

Resolver_RankServicesCall ==
    /\ lcOut = NotCalled
    /\ lcOut' = [called |-> TRUE,
                 result |-> Resolver_rankServices(services, lcIn.metrics, now)]
    /\ UNCHANGED <<services, rrStart, rrIndex, rrTrace, lcIn>>
    /\ UNCHANGED <<storeVars, seqVars, raceVars, resVars, ttlVars>>

ResolverRankingNext == Resolver_RankServicesCall \/ RankingDropped

SpecResolverRanking == RankingInit /\ [][ResolverRankingNext]_vars

\* A ranking was returned.
RankingReturned == lcOut.called /\ lcOut.result.threw = ""

\* The total the weighted draw computes from the returned ranking.
DrawTotal == SumScores(lcOut.result.ranked, Len(lcOut.result.ranked))

\* The health score as the claim states it, in thousandths.
PassingShare(service) ==
    LET passing == Cardinality({ i \in 1..Len(service.Checks) :
                                    service.Checks[i].Status = "passing" })
    IN IF Len(service.Checks) = 0 THEN 0
       ELSE (passing * ScoreOne) \div Len(service.Checks)

\* C39: the health score of an instance is the number of passing checks
\* divided by the number of checks, and 0 (never NaN) for an instance with no
\* checks; so no composite score of a returned ranking is NaN, and neither is
\* the total the weighted draw computes from it.
C39_HealthScoreIsANumber ==
    RankingReturned =>
        /\ \A k \in 1..Len(lcOut.result.ranked) :
              LET service == lcOut.result.ranked[k].service IN
              /\ lcOut.result.ranked[k].score # NaN
              /\ lcOut.result.ranked[k].score
                     = Sum6(Times(PassingShare(service), DEFAULT_WEIGHTS.health),
                            TotalScore(service, lcIn.metrics[service.ID], now)
                                - Times(ConsulResolver_calculateHealthScore(service),
                                        DEFAULT_WEIGHTS.health),
                            0, 0, 0, 0)
        /\ DrawTotal # NaN

\* C39 for the scoring module and the classes that test the number of checks
\* (under SpecRanking): a ranked instance without checks has health score 0,
\* its composite score is the sum of the other five terms, and the draw total
\* is a number.
C39_ZeroChecksScoreZero ==
    RankingReturned =>
        /\ \A k \in 1..Len(lcOut.result.ranked) :
              LET service == lcOut.result.ranked[k].service IN
              /\ lcOut.result.ranked[k].score # NaN
              /\ Len(service.Checks) = 0 =>
                     /\ ConsulResolver_calculateHealthScore(service) = 0
                     /\ lcOut.result.ranked[k].score
                            = TotalScore([service EXCEPT !.Checks = <<Check("critical")>>],
                                         lcIn.metrics[service.ID], now)
        /\ DrawTotal # NaN
        /\ DrawTotal >= 0

\* A ranking that holds an instance without checks next to one with a passing
\* check.
C39_ZeroChecksWitness ==
    /\ RankingReturned
    /\ Len(lcOut.result.ranked) >= 2
    /\ \E k \in 1..Len(lcOut.result.ranked) :
           Len(lcOut.result.ranked[k].service.Checks) = 0
    /\ \E k \in 1..Len(lcOut.result.ranked) :
           /\ Len(lcOut.result.ranked[k].service.Checks) = 1
           /\ lcOut.result.ranked[k].service.Checks[1].Status = "passing"
    /\ DrawTotal > 0

====
